---- MODULE Spec2Model ----
(***************************************************************************)
(* Model of the per-client price-list cache of routes/listaPrecios.js      *)
(* (class ClienteCache), of the handlers that drive it                     *)
(* (GET /lista-precios/completo/:codigoCliente and                         *)
(* GET /lista-precios/visibles/:codigoCliente) and of the helper           *)
(* optimizePriceData.                                                      *)
(*                                                                         *)
(* JavaScript values are modelled as follows.                              *)
(*   - a Map is a sequence of records in insertion order (Map.set on a     *)
(*     present key keeps its position, Map.delete removes the record);     *)
(*   - a string that the code inspects character by character (a client    *)
(*     identifier, a product name) is a sequence of one-character strings; *)
(*   - Date.now() is the variable now, advanced by the action Tick;        *)
(*   - a value whose shape the code sniffs (array, envelope, other object, *)
(*     null) is a record with a tag t.                                     *)
(***************************************************************************)
EXTENDS Integers, Sequences, FiniteSets, TLC

\* ------------------------------------------------------------------------
\* Bounds of the model.  MAX_CACHE_SIZE and CACHE_TTL stand for the
\* constructor's 200 entries and 6 hours (listaPrecios.js lines 17-18),
\* scaled down so that the cap and the expiry are reached.
\* ------------------------------------------------------------------------
MAX_CACHE_SIZE == 2
CACHE_TTL == 1
MaxTime == 2
MaxHits == 2
MaxSets == 3
MaxStores == 2
MaxPop == 6
MaxPopHits == 1
MaxPopTime == 1
MaxProducts == 2
MaxSkuLen == 3

\* Math.ceil(n * 0.2) of cleanup.  For every integer n up to 2,000,000 (the
\* cache holds 200 entries at most) the double product n * 0.2 rounds to a
\* value whose ceiling is that of n / 5.
CeilFifth(n) == (n + 4) \div 5

\* ------------------------------------------------------------------------
\* Strings as character sequences
\* ------------------------------------------------------------------------
IsSpace(ch) == ch = " "

RECURSIVE TrimStart(_)
TrimStart(s) ==
  IF s = <<>> THEN <<>>
  ELSE IF IsSpace(Head(s)) THEN TrimStart(Tail(s)) ELSE s

RECURSIVE TrimEnd(_)
TrimEnd(s) ==
  IF s = <<>> THEN <<>>
  ELSE IF IsSpace(s[Len(s)]) THEN TrimEnd(SubSeq(s, 1, Len(s) - 1)) ELSE s

\* String.prototype.trim
Trim(s) == TrimEnd(TrimStart(s))

\* String.prototype.includes('@')
IncludesAt(s) == \E i \in 1..Len(s) : s[i] = "@"

\* The identifiers a request may carry in :codigoCliente.
RawIds ==
  { <<"K">>, <<"m", "@">>, <<"K", " ">>, <<" ">> }

\* The keys under which the handlers store entries: trimmed, non-blank.
Keys == { Trim(r) : r \in { x \in RawIds : Trim(x) # <<>> } }

\* The keys of the cache when its operations are called directly.
CacheKeys == Keys \cup { <<"J">> }

\* ------------------------------------------------------------------------
\* Map helpers (a Map is a sequence of records with a field key)
\* ------------------------------------------------------------------------
MapHas(m, k) == \E i \in 1..Len(m) : m[i].key = k

MapIndex(m, k) == CHOOSE i \in 1..Len(m) : m[i].key = k

MapGet(m, k) == m[MapIndex(m, k)]

MapSet(m, k, e) ==
  IF MapHas(m, k) THEN [m EXCEPT ![MapIndex(m, k)] = e] ELSE Append(m, e)

MapDelete(m, k) == SelectSeq(m, LAMBDA e : e.key # k)

MapKeys(m) == { m[i].key : i \in 1..Len(m) }

\* ------------------------------------------------------------------------
\* ClienteCache
\* ------------------------------------------------------------------------
\* What get returns when it returns null.
NoData == [t |-> "null"]

\* Variant of updateStats that starts the hits anew on every set.
updateStatsReset(st, k, action) ==
  LET st1 == IF MapHas(st, k) THEN st
             ELSE Append(st, [key |-> k, hits |-> 0, sets |-> 0])
      i   == MapIndex(st1, k)
  IN  [st1 EXCEPT ![i] = [key  |-> k,
                          hits |-> IF action = "hit" THEN @.hits + 1
                                   ELSE IF action = "set" THEN 0 ELSE @.hits,
                          sets |-> IF action = "set" THEN @.sets + 1 ELSE @.sets]]

\* updateStats(clienteId, action).  The field lastAccess, which updateStats
\* writes and no code reads, is left out of the entries.
updateStats(st, k, action) ==
  LET st1 == IF MapHas(st, k) THEN st
             ELSE Append(st, [key |-> k, hits |-> 0, sets |-> 0])
      i   == MapIndex(st1, k)
  IN  [st1 EXCEPT ![i] = [key  |-> k,
                          hits |-> IF action = "hit" THEN @.hits + 1 ELSE @.hits,
                          sets |-> IF action = "set" THEN @.sets + 1 ELSE @.sets]]

\* this.stats.get(k) || { hits: 0 }
SetsOf(st, k) == IF MapHas(st, k) THEN MapGet(st, k).sets ELSE 0

HitsOf(st, k) == IF MapHas(st, k) THEN MapGet(st, k).hits ELSE 0

\* The comparator with the newest entry first among equal hits
CleanupCompareNewest(st, a, b) ==
  IF HitsOf(st, a.key) # HitsOf(st, b.key)
  THEN HitsOf(st, a.key) - HitsOf(st, b.key)
  ELSE b.timestamp - a.timestamp

\* The comparator of cleanup's entries.sort
CleanupCompare(st, a, b) ==
  IF HitsOf(st, a.key) # HitsOf(st, b.key)
  THEN HitsOf(st, a.key) - HitsOf(st, b.key)
  ELSE a.timestamp - b.timestamp

\* entries.sort(compare): Array.prototype.sort is stable, so the element at
\* index i lands after every element that compares lower and after every
\* element that compares equal and came earlier.
SortedEntries(c, st) ==
  LET n == Len(c)
      pos(i) == 1 + Cardinality({ j \in 1..n :
                       \/ CleanupCompare(st, c[j], c[i]) < 0
                       \/ (CleanupCompare(st, c[j], c[i]) = 0 /\ j < i) })
  IN  [p \in 1..n |-> c[CHOOSE i \in 1..n : pos(i) = p]]

\* Math.floor in the place of Math.ceil
ToDeleteFloor(n) == n \div 5

\* The number of entries cleanup deletes: Math.ceil(entries.length * 0.2)
ToDelete(n) == CeilFifth(n)

\* Variant of cleanup that deletes nothing from a cache below its capacity.
cleanupWhenFull(c, st) ==
  LET entries  == SortedEntries(c, st)
      toDelete == IF Len(c) < MAX_CACHE_SIZE THEN 0 ELSE ToDelete(Len(entries))
      gone     == { entries[i].key : i \in 1..toDelete }
  IN  [cache   |-> SelectSeq(c, LAMBDA e : e.key \notin gone),
       evicted |-> gone]

\* cleanup(): the cache after the deletions and the keys deleted
cleanup(c, st) ==
  LET entries  == SortedEntries(c, st)
      toDelete == ToDelete(Len(entries))
      gone     == { entries[i].key : i \in 1..toDelete }
  IN  [cache   |-> SelectSeq(c, LAMBDA e : e.key \notin gone),
       evicted |-> gone]

\* get with the stats entry dropped together with an expired entry
getDropStats(c, st, k, t) ==
  IF ~MapHas(c, k)
  THEN [cache |-> c, stats |-> st, ret |-> NoData, got |-> "absent"]
  ELSE IF t - MapGet(c, k).timestamp > CACHE_TTL
       THEN [cache |-> MapDelete(c, k), stats |-> MapDelete(st, k),
             ret |-> NoData, got |-> "expired"]
       ELSE [cache |-> c, stats |-> updateStats(st, k, "hit"),
             ret |-> MapGet(c, k).data, got |-> "hit"]

\* get with an entry expiring at age TTL already
getStrict(c, st, k, t) ==
  IF ~MapHas(c, k)
  THEN [cache |-> c, stats |-> st, ret |-> NoData, got |-> "absent"]
  ELSE IF t - MapGet(c, k).timestamp >= CACHE_TTL
       THEN [cache |-> MapDelete(c, k), stats |-> st, ret |-> NoData,
             got |-> "expired"]
       ELSE [cache |-> c, stats |-> updateStats(st, k, "hit"),
             ret |-> MapGet(c, k).data, got |-> "hit"]

\* get with the access recorded in the stats before the lookup
getCountsMiss(c, st, k, t) ==
  IF ~MapHas(c, k)
  THEN [cache |-> c, stats |-> updateStats(st, k, "miss"), ret |-> NoData,
        got |-> "absent"]
  ELSE IF t - MapGet(c, k).timestamp > CACHE_TTL
       THEN [cache |-> MapDelete(c, k), stats |-> st, ret |-> NoData,
             got |-> "expired"]
       ELSE [cache |-> c, stats |-> updateStats(st, k, "hit"),
             ret |-> MapGet(c, k).data, got |-> "hit"]

\* get(clienteId) at time t
get(c, st, k, t) ==
  IF ~MapHas(c, k)
  THEN [cache |-> c, stats |-> st, ret |-> NoData, got |-> "absent"]
  ELSE IF t - MapGet(c, k).timestamp > CACHE_TTL
       THEN [cache |-> MapDelete(c, k), stats |-> st, ret |-> NoData,
             got |-> "expired"]
       ELSE [cache |-> c, stats |-> updateStats(st, k, "hit"),
             ret |-> MapGet(c, k).data, got |-> "hit"]

\* set with the cleanup run after the insert
setInsertFirst(c, st, k, data, t) ==
  LET full == Len(c) >= MAX_CACHE_SIZE
      ins  == MapSet(c, k, [key |-> k, data |-> data, timestamp |-> t,
                            size |-> Len(data.lista_precios)])
      cl   == IF full THEN cleanup(ins, st) ELSE [cache |-> ins, evicted |-> {}]
  IN  [cache   |-> cl.cache,
       stats   |-> updateStats(st, k, "set"),
       cleaned |-> full,
       evicted |-> cl.evicted]

\* set that keeps the entry a key already has (first write wins)
setKeepExisting(c, st, k, data, t) ==
  LET full == Len(c) >= MAX_CACHE_SIZE
      cl   == IF full THEN cleanup(c, st) ELSE [cache |-> c, evicted |-> {}]
  IN  [cache   |-> IF MapHas(cl.cache, k) THEN cl.cache
                   ELSE MapSet(cl.cache, k,
                          [key |-> k, data |-> data, timestamp |-> t,
                           size |-> Len(data.lista_precios)]),
       stats   |-> updateStats(st, k, "set"),
       cleaned |-> full,
       evicted |-> cl.evicted]

\* Variant of set that stores the entry without counting the set.
setUncounted(c, st, k, data, t) ==
  LET full == Len(c) >= MAX_CACHE_SIZE
      cl   == IF full THEN cleanup(c, st) ELSE [cache |-> c, evicted |-> {}]
  IN  [cache   |-> MapSet(cl.cache, k,
                     [key |-> k, data |-> data, timestamp |-> t,
                      size |-> Len(data.lista_precios)]),
       stats   |-> st,
       cleaned |-> full,
       evicted |-> cl.evicted]

\* set(clienteId, data) at time t
set(c, st, k, data, t) ==
  LET full == Len(c) >= MAX_CACHE_SIZE
      cl   == IF full THEN cleanup(c, st) ELSE [cache |-> c, evicted |-> {}]
  IN  [cache   |-> MapSet(cl.cache, k,
                     [key |-> k, data |-> data, timestamp |-> t,
                      size |-> Len(data.lista_precios)]),
       stats   |-> updateStats(st, k, "set"),
       cleaned |-> full,
       evicted |-> cl.evicted]

\* The comparator of getStats with the operands exchanged: ascending hits
StatsCompareAscending(a, b) == a.hits - b.hits

\* The comparator of getStats' sort over the stats entries: descending hits
StatsCompare(a, b) == b.hits - a.hits

\* Array.from(this.stats.entries()).sort(compare), a stable sort
SortedStats(st) ==
  LET n == Len(st)
      pos(i) == 1 + Cardinality({ j \in 1..n :
                       \/ StatsCompare(st[j], st[i]) < 0
                       \/ (StatsCompare(st[j], st[i]) = 0 /\ j < i) })
  IN  [p \in 1..n |-> st[CHOOSE i \in 1..n : pos(i) = p]]

\* slice(0, 5)
TOP_ACTIVE == 5

RECURSIVE SumSize(_, _)
SumSize(c, upto) == IF upto = 0 THEN 0 ELSE SumSize(c, upto - 1) + c[upto].size

\* getStats().  memoria_total_kb is the sum of the sizes over 1024, kept as
\* the fraction num / den.
getStats(c, st) ==
  LET sorted == SortedStats(st)
      n      == IF Len(sorted) < TOP_ACTIVE THEN Len(sorted) ELSE TOP_ACTIVE
  IN  [total_clientes       |-> Len(c),
       memoria_total_kb     |-> [num |-> SumSize(c, Len(c)), den |-> 1024],
       clientes_mas_activos |-> [i \in 1..n |-> [cliente |-> sorted[i].key,
                                                  hits    |-> sorted[i].hits]]]

\* delete as this.cache.clear()
deleteClear(c, k) == <<>>

\* delete(clienteId)
delete(c, k) == MapDelete(c, k)

\* ------------------------------------------------------------------------
\* Products and optimizePriceData
\* ------------------------------------------------------------------------
\* A raw upstream product.  A missing (or otherwise falsy) articulo or nombre
\* is the empty string <<>>, a missing (or zero) price is 0: the code reads
\* each of them through `|| default` or a truthiness test only.
Product(sku, name, pf, pl) ==
  [articulo |-> sku, nombre |-> name, precio_final |-> pf, precio_lista |-> pl]

\* substring(0, 80)
NAME_MAX == 80
\* Variant of Substring0 that stops one character early: substring(0, n - 1)
Substring0Short(s, n) == SubSeq(s, 1, IF Len(s) < n - 1 THEN Len(s) ELSE n - 1)

\* s.substring(0, n)
Substring0(s, n) == SubSeq(s, 1, IF Len(s) < n THEN Len(s) ELSE n)

\* The decimal digits of a non-negative integer, as a character sequence.
Digit(d) == CASE d = 0 -> "0" [] d = 1 -> "1" [] d = 2 -> "2" [] d = 3 -> "3"
              [] d = 4 -> "4" [] d = 5 -> "5" [] d = 6 -> "6" [] d = 7 -> "7"
              [] d = 8 -> "8" [] OTHER -> "9"

RECURSIVE Digits(_)
Digits(i) == IF i < 10 THEN <<Digit(i)>> ELSE Digits(i \div 10) \o <<Digit(i % 10)>>

\* `unknown_${index}`
UnknownSku(index) == <<"u", "n", "k", "n", "o", "w", "n", "_">> \o Digits(index)

\* The item built for the product at (zero-based) index.
ItemOptimizado(producto, index) ==
  [s  |-> IF producto.articulo # <<>> THEN producto.articulo ELSE UnknownSku(index),
   n  |-> IF producto.nombre # <<>> THEN Substring0(producto.nombre, NAME_MAX) ELSE <<>>,
   pf |-> producto.precio_final,
   pl |-> producto.precio_lista,
   d  |-> producto.precio_lista > producto.precio_final]

\* mapaPrecios[item.s] = {...}: a later item with the same s overwrites.
MapaPut(m, item) ==
  [x \in DOMAIN m \cup {item.s} |->
     IF x = item.s
     THEN [precio_final |-> item.pf, precio_lista |-> item.pl,
           tiene_descuento |-> item.d]
     ELSE m[x]]

RECURSIVE MapaOf(_, _)
MapaOf(items, upto) ==
  IF upto = 0 THEN <<>> ELSE MapaPut(MapaOf(items, upto - 1), items[upto])

\* A JavaScript value whose shape the handler sniffs.
\*   t = "arr": an array with the items a;  t = "obj": a truthy object that is
\*   no array and has no lista_precios;  t = "null": null or undefined;
\*   t = "env": an object whose lista_precios is the value [t |-> lpt, a |-> a].
Arr(items) == [t |-> "arr", a |-> items, lpt |-> "none"]
Obj == [t |-> "obj", a |-> <<>>, lpt |-> "none"]
Null == [t |-> "null", a |-> <<>>, lpt |-> "none"]
Env(v) == [t |-> "env", a |-> v.a, lpt |-> v.t]

\* mapa_precios: def is FALSE where the code leaves it undefined
MapaDefined(m) == [def |-> TRUE, m |-> m]
MapaUndefined == [def |-> FALSE, m |-> <<>>]

\* Variant of optimizePriceData that builds the items and the map whatever
\* the format.
optimizePriceDataAlwaysOptimized(prices, formato) ==
  IF prices.t # "arr" \/ Len(prices.a) = 0
  THEN [lista_precios |-> <<>>, mapa_precios |-> MapaDefined(<<>>),
        total_productos |-> 0, tiene_descuentos |-> FALSE,
        optimizaciones |-> <<>>]
  ELSE LET items == [i \in 1..Len(prices.a) |-> ItemOptimizado(prices.a[i], i - 1)]
       IN  [lista_precios |-> items,
            mapa_precios |-> MapaDefined(MapaOf(items, Len(items))),
            total_productos |-> Len(items),
            tiene_descuentos |-> \E i \in 1..Len(items) : items[i].d,
            optimizaciones |-> <<"compresion_nombres", "estructura_minima",
                                 "mapa_busqueda_rapida">>]

\* Variant of optimizePriceData without the guard on empty and non-array
\* input for the formats other than "optimizado".
optimizePriceDataNoGuard(prices, formato) ==
  IF formato = "optimizado"
  THEN IF prices.t # "arr" \/ Len(prices.a) = 0
       THEN [lista_precios |-> <<>>, mapa_precios |-> MapaDefined(<<>>),
             total_productos |-> 0, tiene_descuentos |-> FALSE,
             optimizaciones |-> <<>>]
       ELSE LET items == [i \in 1..Len(prices.a) |-> ItemOptimizado(prices.a[i], i - 1)]
            IN  [lista_precios |-> items,
                 mapa_precios |-> MapaDefined(MapaOf(items, Len(items))),
                 total_productos |-> Len(items),
                 tiene_descuentos |-> \E i \in 1..Len(items) : items[i].d,
                 optimizaciones |-> <<"compresion_nombres", "estructura_minima",
                                      "mapa_busqueda_rapida">>]
  ELSE [lista_precios |-> prices.a,
        mapa_precios |-> MapaUndefined,
        total_productos |-> Len(prices.a),
        tiene_descuentos |-> FALSE,
        optimizaciones |-> <<"formato_completo">>]

\* optimizePriceData(prices, formato)
optimizePriceData(prices, formato) ==
  IF prices.t # "arr" \/ Len(prices.a) = 0
  THEN [lista_precios |-> <<>>, mapa_precios |-> MapaDefined(<<>>),
        total_productos |-> 0, tiene_descuentos |-> FALSE,
        optimizaciones |-> <<>>]
  ELSE IF formato = "optimizado"
  THEN LET items == [i \in 1..Len(prices.a) |-> ItemOptimizado(prices.a[i], i - 1)]
       IN  [lista_precios |-> items,
            mapa_precios |-> MapaDefined(MapaOf(items, Len(items))),
            total_productos |-> Len(items),
            tiene_descuentos |-> \E i \in 1..Len(items) : items[i].d,
            optimizaciones |-> <<"compresion_nombres", "estructura_minima",
                                 "mapa_busqueda_rapida">>]
  ELSE [lista_precios |-> prices.a,
        mapa_precios |-> MapaUndefined,
        total_productos |-> Len(prices.a),
        tiene_descuentos |-> FALSE,
        optimizaciones |-> <<"formato_completo">>]

\* Variant of generateRecommendations with the thresholds included.
generateRecommendationsInclusive(totalProductos, tiempoMs) ==
  (IF totalProductos >= 10000 THEN <<"alto">>
   ELSE IF totalProductos >= 1000 THEN <<"medio">> ELSE <<>>)
  \o (IF tiempoMs >= 5000 THEN <<"advertencia">> ELSE <<>>)

\* generateRecommendations(totalProductos, tiempoMs): the niveles pushed
generateRecommendations(totalProductos, tiempoMs) ==
  (IF totalProductos > 10000 THEN <<"alto">>
   ELSE IF totalProductos > 1000 THEN <<"medio">> ELSE <<>>)
  \o (IF tiempoMs > 5000 THEN <<"advertencia">> ELSE <<>>)


\* ------------------------------------------------------------------------
\* The upstream accessors (services/listaPreciosService.js)
\* ------------------------------------------------------------------------
\* Arithmetic on undefined: `x.length` of a value that has none.
Undefined == -1

\* The product lists upstream answers with.
UpstreamLists ==
  { <<>>,
    <<Product(<<"A">>, <<"a">>, 80, 100), Product(<<"B">>, <<"b">>, 50, 50)>> }

\* What the HTTP call of obtenerListaPreciosPorCliente ends with: the shape
\* of response.data, or a failure (no token, HTTP error status, timeout).
AxiosOutcomes ==
  [kind : {"obj_lista", "array", "str_lista"}, items : UpstreamLists]
  \cup [kind : {"str_other", "str_falsy", "str_bad", "falsy", "obj_other",
                "obj_error", "no_token", "http_401", "http_404", "http_400",
                "http_500", "timeout"},
        items : {<<>>}]

Returned(v) == [threw |-> FALSE, value |-> v, message |-> "none"]
Threw(msg) == [threw |-> TRUE, value |-> Null, message |-> msg]

\* obtenerListaPreciosPorCliente(codigoCliente, options).  options.intentos
\* is read nowhere in the function: one HTTP call is made per invocation.
obtenerListaPreciosPorCliente(o) ==
  CASE o.kind = "no_token"  -> Threw("No se pudo obtener token de autenticacion")
    [] o.kind = "str_lista" -> Returned(Arr(o.items))
    [] o.kind = "str_other" -> Returned(Obj)
    [] o.kind = "str_falsy" -> Returned(Null)
    [] o.kind = "str_bad"   -> Returned(Arr(<<>>))
    [] o.kind = "obj_lista" -> Returned(Arr(o.items))
    [] o.kind = "array"     -> Returned(Arr(o.items))
    [] o.kind = "obj_error" -> Threw("Error al obtener lista de precios: <error>")
    [] o.kind = "obj_other" -> Returned(Arr(<<>>))
    [] o.kind = "falsy"     -> Returned(Arr(<<>>))
    [] o.kind = "http_401"  -> Threw("Token expirado o invalido")
    [] o.kind = "http_404"  -> Threw("Cliente no encontrado")
    [] o.kind = "http_400"  -> Threw("Solicitud invalida para cliente")
    [] OTHER                -> Threw("Error al obtener lista de precios: <message>")

\* What obtenerClientePorEmail resolves to.
EmailLookups == {"found", "not_found", "no_code"}

\* obtenerListaPreciosPorEmail(email, options)
obtenerListaPreciosPorEmail(lookup, o) ==
  CASE lookup = "not_found" -> Threw("Cliente con email no encontrado")
    [] lookup = "no_code"   -> Threw("Cliente encontrado pero sin codigo (ID) asociado")
    [] OTHER ->
         LET r == obtenerListaPreciosPorCliente(o)
         IN  IF r.threw THEN r ELSE Returned(Env(r.value))

\* What awaiting the accessor chosen for clienteId can end with.
AccessorResults(esEmail) ==
  IF esEmail
  THEN { obtenerListaPreciosPorEmail(l, o) : l \in EmailLookups, o \in AxiosOutcomes }
  ELSE { obtenerListaPreciosPorCliente(o) : o \in AxiosOutcomes }

\* ------------------------------------------------------------------------
\* GET /lista-precios/completo/:codigoCliente
\* ------------------------------------------------------------------------
Truthy(v) == v.t # "null"

\* v.lista_precios is truthy (an empty array is)
HasLista(v) == v.t = "env" /\ v.lpt \in {"arr", "obj"}

ListaOf(v) == [t |-> v.lpt, a |-> v.a, lpt |-> "none"]

LengthOf(v) == IF v.t = "arr" THEN Len(v.a) ELSE Undefined

\* "Normalizar respuesta" of the primary fetch
NormalizePrimary(v) ==
  IF Truthy(v) /\ v.t = "arr"
  THEN [totalProductos |-> Len(v.a), listaPrecios |-> v]
  ELSE IF Truthy(v) /\ HasLista(v)
  THEN [totalProductos |-> LengthOf(ListaOf(v)), listaPrecios |-> ListaOf(v)]
  ELSE [totalProductos |-> 0, listaPrecios |-> Arr(<<>>)]

\* "Normalizar fallback": totalProductos keeps its initial 0 otherwise
NormalizeFallback(v) ==
  IF Truthy(v) /\ HasLista(v)
  THEN [totalProductos |-> LengthOf(ListaOf(v)), listaPrecios |-> ListaOf(v)]
  ELSE [totalProductos |-> 0, listaPrecios |-> v]

TipoCliente(esEmail) == IF esEmail THEN "por_email" ELSE "por_codigo"

\* The object stored in the cache (step 4 of the handler)
CacheData(optimizedData, totalProductos, fetchTime, formato, esEmail, t) ==
  [lista_precios   |-> optimizedData.lista_precios,
   mapa_precios    |-> optimizedData.mapa_precios,
   total_productos |-> totalProductos,
   metadata        |-> [timestamp_obtencion |-> t,
                        tiempo_obtencion_ms |-> fetchTime,
                        formato_optimizado  |-> formato,
                        cliente_tipo        |-> IF esEmail THEN "email" ELSE "codigo",
                        tiene_descuentos    |-> optimizedData.tiene_descuentos]]

\* The 400 answer to a blank identifier
ValidationResponse ==
  [status |-> 400, error |-> "Codigo de cliente requerido"]

\* The answer served from the cache
\* Variant of CacheResponse that converts a list stored raw to the optimized
\* items and their map before answering.
CacheResponseOptimized(clienteId, esEmail, cachedData) ==
  LET o == IF cachedData.metadata.formato_optimizado = "optimizado"
           THEN cachedData
           ELSE optimizePriceData(Arr(cachedData.lista_precios), "optimizado")
  IN  [status          |-> 200,
       success         |-> TRUE,
       cliente         |-> clienteId,
       tipo_cliente    |-> TipoCliente(esEmail),
       lista_precios   |-> o.lista_precios,
       mapa_precios    |-> o.mapa_precios,
       total_productos |-> cachedData.total_productos,
       metadata        |-> cachedData.metadata,
       desde_cache     |-> TRUE]

CacheResponse(clienteId, esEmail, cachedData) ==
  [status          |-> 200,
   success         |-> TRUE,
   cliente         |-> clienteId,
   tipo_cliente    |-> TipoCliente(esEmail),
   lista_precios   |-> cachedData.lista_precios,
   mapa_precios    |-> cachedData.mapa_precios,
   total_productos |-> cachedData.total_productos,
   metadata        |-> cachedData.metadata,
   desde_cache     |-> TRUE]

\* The answer built from a fresh fetch (step 5 of the handler)
FreshResponse(clienteId, esEmail, optimizedData, totalProductos, fetchTime, formato, cacheSize) ==
  [status            |-> 200,
   success           |-> TRUE,
   cliente           |-> clienteId,
   tipo_cliente      |-> TipoCliente(esEmail),
   lista_precios     |-> optimizedData.lista_precios,
   mapa_precios      |-> IF formato = "optimizado" THEN optimizedData.mapa_precios
                         ELSE MapaUndefined,
   total_productos   |-> totalProductos,
   tiempo_procesamiento_ms |-> fetchTime,
   formato_entrega   |-> formato,
   optimizaciones_aplicadas |-> optimizedData.optimizaciones,
   desde_cache       |-> FALSE,
   guardado_en_cache |-> totalProductos > 0,
   total_clientes_cacheados |-> cacheSize,
   recomendaciones   |-> generateRecommendations(totalProductos, fetchTime)]

\* The 500 answer of the outer catch
ErrorResponse(codigoCliente, message) ==
  [status  |-> 500,
   success |-> FALSE,
   error   |-> "Error obteniendo lista de precios",
   message |-> message,
   cliente |-> codigoCliente]


\* ------------------------------------------------------------------------
\* GET /lista-precios/visibles/:codigoCliente
\* ------------------------------------------------------------------------
MAX_SKUS == 100

\* The number of commas of s, and the position of its n-th comma.
CommaCount(s) == Cardinality({i \in 1..Len(s) : s[i] = ","})

NthComma(s, n) ==
  CHOOSE i \in 1..Len(s) :
    s[i] = "," /\ Cardinality({j \in 1..i : s[j] = ","}) = n

\* skus.split(','): the pieces between the commas, empty ones included
SplitComma(s) ==
  [k \in 1..(CommaCount(s) + 1) |->
     SubSeq(s,
            IF k = 1 THEN 1 ELSE NthComma(s, k - 1) + 1,
            IF k = CommaCount(s) + 1 THEN Len(s) ELSE NthComma(s, k) - 1)]

\* skus.split(',').map(s => s.trim()).filter(s => s).slice(0, 100)
SkuArray(skus) ==
  LET parts   == SplitComma(skus)
      trimmed == [i \in 1..Len(parts) |-> Trim(parts[i])]
      kept    == SelectSeq(trimmed, LAMBDA x : x # <<>>)
  IN  SubSeq(kept, 1, IF Len(kept) < MAX_SKUS THEN Len(kept) ELSE MAX_SKUS)

\* Names every plain object inherits from Object.prototype (a selection):
\* obj[name] is a truthy function for them even when obj has no such key.
InheritedNames ==
  { <<"c", "o", "n", "s", "t", "r", "u", "c", "t", "o", "r">>,
    <<"t", "o", "S", "t", "r", "i", "n", "g">> }

\* cachedData.mapa_precios[sku] is truthy
MapaTruthy(m, sku) == sku \in DOMAIN m \/ sku \in InheritedNames

\* The product pushed for a sku found in the cached map
ProductoEncontrado(m, sku) ==
  [articulo     |-> sku,
   precio_final |-> IF sku \in DOMAIN m THEN m[sku].precio_final ELSE Undefined,
   precio_lista |-> IF sku \in DOMAIN m THEN m[sku].precio_lista ELSE Undefined,
   desde_cache  |-> TRUE]

\* The simulated product of the uncached branch
ProductoSimulado(sku) ==
  [articulo     |-> sku,
   precio_final |-> 0,
   precio_lista |-> 0,
   desde_cache  |-> FALSE,
   advertencia  |-> "Cliente no cacheado, use endpoint /completo primero"]

\* productosEncontrados for the value get returned
ProductosEncontrados(cachedData, skuArray) ==
  IF cachedData # NoData /\ cachedData.mapa_precios.def
  THEN LET hit == SelectSeq(skuArray,
                    LAMBDA x : MapaTruthy(cachedData.mapa_precios.m, x))
       IN  [i \in 1..Len(hit) |-> ProductoEncontrado(cachedData.mapa_precios.m, hit[i])]
  ELSE [i \in 1..Len(skuArray) |-> ProductoSimulado(skuArray[i])]

VisibleResponse(codigoCliente, skuArray, productos) ==
  [status           |-> 200,
   success          |-> TRUE,
   cliente          |-> codigoCliente,
   skus_solicitados |-> Len(skuArray),
   skus_encontrados |-> Len(productos),
   productos        |-> productos,
   todos            |-> ~(Len(productos) < Len(skuArray)),
   desde_cache      |-> Len(productos) > 0 /\ productos[1].desde_cache]

SkusRequired == [status |-> 400, error |-> "Parametro 'skus' requerido"]

\* The values of the query parameter skus; <<>> is a missing or empty one.
SkuQueries ==
  { <<>>,
    <<"A", ",", "B">>,
    <<" ", "A", ",", ",", "Z", " ">>,
    <<"A", ",", "c", "o", "n", "s", "t", "r", "u", "c", "t", "o", "r">> }

\* ------------------------------------------------------------------------
\* The handlers as functions of the cache (c), the stats (st), the clock (t)
\* and the request.  Each returns the cache and stats it leaves, what it
\* does next (next) and, when it answers, the answer (resp).
\* ------------------------------------------------------------------------
NoResp == [status |-> 0]

\* /completo from the request to its first await or to its answer
completoStartBase(c, st, t, codigoCliente, fuerza) ==
  IF Trim(codigoCliente) = <<>>
  THEN [next |-> "respond", cache |-> c, stats |-> st, got |-> "none",
        ret |-> NoData, resp |-> ValidationResponse]
  ELSE LET clienteId == Trim(codigoCliente)
           g == IF fuerza
                THEN [cache |-> c, stats |-> st, ret |-> NoData, got |-> "none"]
                ELSE get(c, st, clienteId, t)
       IN  IF g.ret # NoData
           THEN [next |-> "respond", cache |-> g.cache, stats |-> g.stats,
                 got |-> g.got, ret |-> g.ret,
                 resp |-> CacheResponse(clienteId, IncludesAt(clienteId), g.ret)]
           ELSE [next |-> "await_primary", cache |-> g.cache, stats |-> g.stats,
                 got |-> g.got, ret |-> g.ret, resp |-> NoResp]

\* The test of fuerza_actualizacion inverted
completoStartInverted(c, st, t, codigoCliente, fuerza) ==
  completoStartBase(c, st, t, codigoCliente, ~fuerza)

\* The validation without the trim: only the empty identifier is rejected
completoStartNoTrim(c, st, t, codigoCliente, fuerza) ==
  IF codigoCliente = <<>>
  THEN completoStartBase(c, st, t, codigoCliente, fuerza)
  ELSE LET g == IF fuerza
                THEN [cache |-> c, stats |-> st, ret |-> NoData, got |-> "none"]
                ELSE get(c, st, Trim(codigoCliente), t)
       IN  IF g.ret # NoData
           THEN completoStartBase(c, st, t, codigoCliente, fuerza)
           ELSE [next |-> "await_primary", cache |-> g.cache, stats |-> g.stats,
                 got |-> g.got, ret |-> g.ret, resp |-> NoResp]

\* The cache consulted whatever fuerza_actualizacion is
completoStartAlwaysGet(c, st, t, codigoCliente, fuerza) ==
  completoStartBase(c, st, t, codigoCliente, FALSE)

completoStart(c, st, t, codigoCliente, fuerza) ==
  completoStartBase(c, st, t, codigoCliente, fuerza)

\* Variant of completoFinish that stores every client under its code, the
\* email identifiers included.
completoFinishCodeKey(c, st, t, r, n) ==
  LET clienteId     == Trim(r.raw)
      esEmail       == IncludesAt(clienteId)
      fetchTime     == t - r.startTime
      optimizedData == optimizePriceData(n.listaPrecios, r.formato)
      store         == n.totalProductos > 0
      cacheData     == CacheData(optimizedData, n.totalProductos, fetchTime,
                                 r.formato, esEmail, t)
      s             == set(c, st, <<"K">>, cacheData, t)
      cacheAfter    == IF store THEN s.cache ELSE c
  IN  [next    |-> "respond",
       cache   |-> cacheAfter,
       stats   |-> IF store THEN s.stats ELSE st,
       didSet  |-> store,
       cleaned |-> store /\ s.cleaned,
       evicted |-> IF store THEN s.evicted ELSE {},
       stored  |-> IF store THEN cacheData ELSE NoData,
       resp    |-> FreshResponse(clienteId, esEmail, optimizedData,
                                 n.totalProductos, fetchTime, r.formato,
                                 Len(cacheAfter))]

\* Steps 3 to 5 of /completo for the request r (suspended since r.startTime)
\* and the normalized list n: optimize, store when totalProductos > 0, answer.
completoFinish(c, st, t, r, n) ==
  LET clienteId     == Trim(r.raw)
      esEmail       == IncludesAt(clienteId)
      fetchTime     == t - r.startTime
      optimizedData == optimizePriceData(n.listaPrecios, r.formato)
      store         == n.totalProductos > 0
      cacheData     == CacheData(optimizedData, n.totalProductos, fetchTime,
                                 r.formato, esEmail, t)
      s             == set(c, st, clienteId, cacheData, t)
      cacheAfter    == IF store THEN s.cache ELSE c
  IN  [next    |-> "respond",
       cache   |-> cacheAfter,
       stats   |-> IF store THEN s.stats ELSE st,
       didSet  |-> store,
       cleaned |-> store /\ s.cleaned,
       evicted |-> IF store THEN s.evicted ELSE {},
       stored  |-> IF store THEN cacheData ELSE NoData,
       resp    |-> FreshResponse(clienteId, esEmail, optimizedData,
                                 n.totalProductos, fetchTime, r.formato,
                                 Len(cacheAfter))]

Unstored(c, st, next, resp) ==
  [next |-> next, cache |-> c, stats |-> st, didSet |-> FALSE,
   cleaned |-> FALSE, evicted |-> {}, stored |-> NoData, resp |-> resp]

\* /completo resumed with the outcome res of the primary fetch
completoPrimary(c, st, t, r, res) ==
  IF res.threw
  THEN Unstored(c, st, "await_fallback", NoResp)
  ELSE completoFinish(c, st, t, r, NormalizePrimary(res.value))

\* The fallback with a valid cached entry served when it throws
completoFallbackStale(c, st, t, r, res) ==
  LET clienteId == Trim(r.raw)
  IN  IF res.threw
      THEN IF MapHas(c, clienteId)
           THEN Unstored(c, st, "respond",
                         CacheResponse(clienteId, IncludesAt(clienteId),
                                       MapGet(c, clienteId).data))
           ELSE Unstored(c, st, "respond",
                         ErrorResponse(r.raw, "No se pudieron obtener precios"))
      ELSE completoFinish(c, st, t, r, NormalizeFallback(res.value))

\* /completo resumed with the outcome res of the fallback fetch
completoFallback(c, st, t, r, res) ==
  IF res.threw
  THEN Unstored(c, st, "respond",
                ErrorResponse(r.raw, "No se pudieron obtener precios"))
  ELSE completoFinish(c, st, t, r, NormalizeFallback(res.value))

\* /visibles with the entry deleted once it has been read
visiblesDeleting(c, st, t, codigoCliente, skus) ==
  IF skus = <<>>
  THEN [cache |-> c, stats |-> st, got |-> "none", ret |-> NoData,
        resp |-> SkusRequired]
  ELSE LET skuArray == SkuArray(skus)
           g        == get(c, st, codigoCliente, t)
       IN  [cache |-> delete(g.cache, codigoCliente), stats |-> g.stats,
            got |-> g.got, ret |-> g.ret,
            resp  |-> VisibleResponse(codigoCliente, skuArray,
                        ProductosEncontrados(g.ret, skuArray))]

\* /visibles (it has no await)
visibles(c, st, t, codigoCliente, skus) ==
  IF skus = <<>>
  THEN [cache |-> c, stats |-> st, got |-> "none", ret |-> NoData,
        resp |-> SkusRequired]
  ELSE LET skuArray == SkuArray(skus)
           g        == get(c, st, codigoCliente, t)
       IN  [cache |-> g.cache, stats |-> g.stats, got |-> g.got, ret |-> g.ret,
            resp  |-> VisibleResponse(codigoCliente, skuArray,
                        ProductosEncontrados(g.ret, skuArray))]

\* ------------------------------------------------------------------------
\* State
\* ------------------------------------------------------------------------
VARIABLES
  cache,   \* clienteCache.cache: entries [key, data, timestamp, size]
  stats,   \* clienteCache.stats: entries [key, hits, sets]
  now,     \* Date.now()
  reqs,    \* the /completo requests: idle, or suspended at an await
  last     \* the step just taken

vars == <<cache, stats, now, reqs, last>>

NReq == 1

Slots == 1..NReq

Idle == [pc |-> "idle"]

\* The record of a step: the operation (op), what its get or delete found (got),
\* whether it called set (didSet) and cleanup (cleaned) and the keys cleanup
\* deleted (evicted); for a cache operation called directly its key and the
\* payload it returned or stored (ret); for the step that answers a /completo
\* request the clienteId.  What a handler answers is the resp of the handler
\* functions above.
NoKey == <<>>

Step(op, key) ==
  [op |-> op, key |-> key, got |-> "none", ret |-> NoData,
   didSet |-> FALSE, cleaned |-> FALSE, evicted |-> {}]

RECURSIVE SumHits(_, _)
SumHits(st, n) == IF n = 0 THEN 0 ELSE st[n].hits + SumHits(st, n - 1)

RECURSIVE SumSets(_, _)
SumSets(st, n) == IF n = 0 THEN 0 ELSE st[n].sets + SumSets(st, n - 1)

\* The counters hits and sets grow without bound in the code; the model stops
\* counting at MaxHits hits in total, at MaxSets sets in total when set is
\* called directly and at MaxStores when /completo calls it.
HitBudget == SumHits(stats, Len(stats)) < MaxHits
SetBudget == SumSets(stats, Len(stats)) < MaxSets
StoreBudget == SumSets(stats, Len(stats)) < MaxStores

Init ==
  /\ cache = <<>>
  /\ stats = <<>>
  /\ now = 0
  /\ reqs = [i \in Slots |-> Idle]
  /\ last = Step("init", NoKey)

\* ------------------------------------------------------------------------
\* The clock, delete and the periodic sweep
\* ------------------------------------------------------------------------
Tick ==
  /\ now < MaxTime
  /\ now' = now + 1
  /\ last' = Step("tick", NoKey)
  /\ UNCHANGED <<cache, stats, reqs>>

\* The payloads handed to set when it is called directly: what /completo
\* stores for a fetch that took no time.
DirectLists ==
  { <<Product(<<"A">>, <<"a">>, 80, 100)>>,
    <<Product(<<"A">>, <<"a">>, 80, 100), Product(<<"B">>, <<"b">>, 50, 50)>> }

DirectPayloads ==
  { CacheData(optimizePriceData(Arr(l), "optimizado"), Len(l), 0, "optimizado",
              FALSE, now) : l \in DirectLists }

CacheGet(k) ==
  LET g == get(cache, stats, k, now)
  IN  /\ g.got = "hit" => HitBudget
      /\ cache' = g.cache
      /\ stats' = g.stats
      /\ last' = [Step("get", k) EXCEPT !.got = g.got, !.ret = g.ret]
      /\ UNCHANGED <<now, reqs>>

CacheSet(k, data) ==
  LET r == set(cache, stats, k, data, now)
  IN  /\ SetBudget
      /\ cache' = r.cache
      /\ stats' = r.stats
      /\ last' = [Step("set", k) EXCEPT !.ret = data, !.didSet = TRUE,
                                         !.cleaned = r.cleaned,
                                         !.evicted = r.evicted]
      /\ UNCHANGED <<now, reqs>>

CacheDelete(k) ==
  /\ cache' = delete(cache, k)
  /\ last' = [Step("delete", k) EXCEPT
                !.got = IF MapHas(cache, k) THEN "present" ELSE "absent"]
  /\ UNCHANGED <<stats, now, reqs>>

\* Variant of Sweep that removes the stats entries of the evicted keys too.
SweepDropStats ==
  LET r == cleanup(cache, stats)
  IN  /\ cache' = r.cache
      /\ stats' = SelectSeq(stats, LAMBDA e : e.key \notin r.evicted)
      /\ last' = [Step("sweep", NoKey) EXCEPT !.cleaned = TRUE,
                                                !.evicted = r.evicted]
      /\ UNCHANGED <<now, reqs>>

\* setInterval(() => clienteCache.cleanup(), 60 * 60 * 1000)
Sweep ==
  LET r == cleanup(cache, stats)
  IN  /\ cache' = r.cache
      /\ last' = [Step("sweep", NoKey) EXCEPT !.cleaned = TRUE,
                                                !.evicted = r.evicted]
      /\ UNCHANGED <<stats, now, reqs>>

\* The identifiers bound in the scope of the route handlers of
\* routes/listaPrecios.js: its imports and its top-level declarations.  The
\* capacity and the TTL are fields of the ClienteCache object, not bindings.
ModuleScope ==
  { "express", "obtenerListaPreciosPorCliente", "obtenerListaPreciosPorEmail",
    "router", "ClienteCache", "clienteCache", "optimizePriceData",
    "generateRecommendations" }

\* GET /lista-precios/estadisticas: the object literal reads the identifier
\* MAX_CACHE_SIZE; reading an identifier that is not bound throws a
\* ReferenceError, which the catch answers with 500.
estadisticas(c, st) ==
  LET cacheStats == getStats(c, st)
  IN  IF "MAX_CACHE_SIZE" \in ModuleScope
      THEN [status               |-> 200,
            total_clientes       |-> cacheStats.total_clientes,
            memoria_total_kb     |-> cacheStats.memoria_total_kb,
            clientes_mas_activos |-> cacheStats.clientes_mas_activos,
            ttl_horas            |-> 6]
      ELSE [status  |-> 500,
            error   |-> "Error obteniendo estadisticas",
            message |-> "MAX_CACHE_SIZE is not defined"]

\* A request of /lista-precios/estadisticas is answered.
Estadisticas ==
  /\ last' = [Step("estadisticas", NoKey) EXCEPT !.ret = estadisticas(cache, stats)]
  /\ UNCHANGED <<cache, stats, now, reqs>>

\* clienteCache.getStats(): reads the two maps and changes neither.
GetStats ==
  /\ last' = [Step("stats", NoKey) EXCEPT !.ret = getStats(cache, stats)]
  /\ UNCHANGED <<cache, stats, now, reqs>>

\* ------------------------------------------------------------------------
\* GET /lista-precios/completo/:codigoCliente
\* ------------------------------------------------------------------------
\* A blank identifier is answered 400.
FetchInvalid(i, raw) ==
  LET h == completoStart(cache, stats, now, raw, FALSE)
  IN  /\ reqs[i].pc = "idle"
      /\ Trim(raw) = <<>>
      /\ cache' = h.cache
      /\ stats' = h.stats
      /\ last' = Step("fetch_invalid", NoKey)
      /\ UNCHANGED <<now, reqs>>

\* fuerza_actualizacion is not "true" and the cache answers.
FetchHit(i, raw, formato) ==
  LET h == completoStart(cache, stats, now, raw, FALSE)
  IN  /\ reqs[i].pc = "idle"
      /\ Trim(raw) # <<>>
      /\ h.next = "respond"
      /\ HitBudget
      /\ cache' = h.cache
      /\ stats' = h.stats
      /\ last' = [Step("fetch_hit", Trim(raw)) EXCEPT !.got = h.got]
      /\ UNCHANGED <<now, reqs>>

\* The cache does not answer, or is not asked: the primary fetch is issued
\* and the handler suspends.
FetchMiss(i, raw, force, formato) ==
  LET h == completoStart(cache, stats, now, raw, force)
  IN  /\ reqs[i].pc = "idle"
      /\ h.next = "await_primary"
      /\ cache' = h.cache
      /\ stats' = h.stats
      /\ reqs' = [reqs EXCEPT ![i] =
                    [pc |-> "primary", raw |-> raw, formato |-> formato,
                     startTime |-> now, calls |-> 1]]
      /\ last' = [Step("fetch_miss", NoKey) EXCEPT !.got = h.got]
      /\ UNCHANGED now

\* What the accessor awaited by the request in slot i can end with.
ResultsFor(i) ==
  IF reqs[i].pc = "idle" THEN {}
  ELSE AccessorResults(IncludesAt(Trim(reqs[i].raw)))

\* The request in slot i answers with the outcome h of its last segment.
Answer(i, h, op) ==
  /\ h.didSet => StoreBudget
  /\ cache' = h.cache
  /\ stats' = h.stats
  /\ reqs' = [reqs EXCEPT ![i] = Idle]
  /\ last' = [Step(op, Trim(reqs[i].raw)) EXCEPT
                !.didSet = h.didSet, !.cleaned = h.cleaned,
                !.evicted = h.evicted]
  /\ UNCHANGED now

\* The primary fetch returns a value.
PrimaryReturns(i, res) ==
  /\ reqs[i].pc = "primary"
  /\ ~res.threw
  /\ Answer(i, completoPrimary(cache, stats, now, reqs[i], res), "primary_done")

\* Variant of PrimaryThrows that issues the primary fetch again.
PrimaryThrowsAgain(i, res) ==
  /\ reqs[i].pc = "primary"
  /\ res.threw
  /\ reqs' = [reqs EXCEPT ![i].calls = IF @ = 1 THEN 2 ELSE 1]
  /\ last' = Step("primary_failed", NoKey)
  /\ UNCHANGED <<cache, stats, now>>

\* The primary fetch throws: the fallback fetch is issued.
PrimaryThrows(i, res) ==
  LET h == completoPrimary(cache, stats, now, reqs[i], res)
  IN  /\ reqs[i].pc = "primary"
      /\ res.threw
      /\ cache' = h.cache
      /\ stats' = h.stats
      /\ reqs' = [reqs EXCEPT ![i].pc = "fallback", ![i].calls = @ + 1]
      /\ last' = Step("primary_failed", NoKey)
      /\ UNCHANGED now

\* The fallback fetch returns a value.
FallbackReturns(i, res) ==
  /\ reqs[i].pc = "fallback"
  /\ ~res.threw
  /\ Answer(i, completoFallback(cache, stats, now, reqs[i], res), "fallback_done")

\* Variant of FallbackThrows that issues the fallback fetch again after a
\* failure instead of leaving the try block.
FallbackRetries(i, res) ==
  /\ reqs[i].pc = "fallback"
  /\ res.threw
  /\ IF reqs[i].calls < 3
     THEN /\ reqs' = [reqs EXCEPT ![i].calls = @ + 1]
          /\ last' = Step("primary_failed", NoKey)
          /\ UNCHANGED <<cache, stats, now>>
     ELSE Answer(i, completoFallback(cache, stats, now, reqs[i], res), "fetch_error")

\* The fallback fetch throws too: the outer catch answers 500.
FallbackThrows(i, res) ==
  /\ reqs[i].pc = "fallback"
  /\ res.threw
  /\ Answer(i, completoFallback(cache, stats, now, reqs[i], res), "fetch_error")

\* ------------------------------------------------------------------------
\* GET /lista-precios/visibles/:codigoCliente
\* ------------------------------------------------------------------------
Visible(raw, skus) ==
  LET h == visibles(cache, stats, now, raw, skus)
  IN  /\ h.got = "hit" => HitBudget
      /\ cache' = h.cache
      /\ stats' = h.stats
      /\ last' = [Step("visible", NoKey) EXCEPT !.got = h.got]
      /\ UNCHANGED <<now, reqs>>

\* ------------------------------------------------------------------------
\* The system
\* ------------------------------------------------------------------------
Formatos == {"optimizado", "completo"}

\* The system over the identifiers R, the formats F and the request slots S.
NextOver(R, F, S) ==
  \/ Tick
  \/ \E k \in R : CacheDelete(k)
  \/ Sweep
  \/ \E i \in S : \E raw \in R : FetchInvalid(i, raw)
  \/ \E i \in S : \E raw \in R : \E f \in F : FetchHit(i, raw, f)
  \/ \E i \in S : \E raw \in R : \E force \in BOOLEAN : \E f \in F :
       FetchMiss(i, raw, force, f)
  \/ \E i \in S : \E res \in ResultsFor(i) : PrimaryReturns(i, res)
  \/ \E i \in S : \E res \in ResultsFor(i) : PrimaryThrows(i, res)
  \/ \E i \in S : \E res \in ResultsFor(i) : FallbackReturns(i, res)
  \/ \E i \in S : \E res \in ResultsFor(i) : FallbackThrows(i, res)
  \/ \E raw \in R : \E q \in SkuQueries : Visible(raw, q)

Next == NextOver(RawIds, {"optimizado"}, Slots)

Spec == Init /\ [][Next]_vars

\* The cache alone, its operations called directly.
NextCache ==
  \/ Tick
  \/ \E k \in CacheKeys : CacheGet(k)
  \/ \E k \in CacheKeys : \E d \in DirectPayloads : CacheSet(k, d)
  \/ \E k \in CacheKeys : CacheDelete(k)
  \/ Sweep

SpecCache == Init /\ [][NextCache]_vars

\* cleanup alone, from every population of up to MaxPop entries: the keys
\* c1, c2, ... in insertion order, each stored once, with every combination
\* of hits and timestamps (set of a key already present keeps its place in
\* the Map and renews its timestamp, so timestamps need not follow the
\* insertion order).
PopKey(i) == <<"c", Digit(i)>>

PopPayload ==
  CacheData(optimizePriceData(Arr(<<Product(<<"A">>, <<"a">>, 80, 100)>>),
                              "optimizado"),
            1, 0, "optimizado", FALSE, 0)

InitEvict ==
  \E n \in 0..MaxPop :
    \E h \in [1..n -> 0..MaxPopHits] :
      \E ts \in [1..n -> 0..MaxPopTime] :
        /\ cache = [i \in 1..n |->
                      [key |-> PopKey(i), data |-> PopPayload,
                       timestamp |-> ts[i],
                       size |-> Len(PopPayload.lista_precios)]]
        /\ stats = [i \in 1..n |-> [key |-> PopKey(i), hits |-> h[i], sets |-> 1]]
        /\ now = MaxPopTime
        /\ reqs = [i \in Slots |-> Idle]
        /\ last = Step("init", NoKey)

NextEvict == Sweep

SpecEvict == InitEvict /\ [][NextEvict]_vars

\* ------------------------------------------------------------------------
\* Properties of the cache (SpecCache, SpecEvict)
\* ------------------------------------------------------------------------
Age(c, k, t) == t - MapGet(c, k).timestamp

\* C1: whatever get, set, delete, cleanup and the sweep have done before, the
\* cache holds at most MAX_CACHE_SIZE entries right after a set completes.
C1_BoundedAfterSet == last.didSet => Len(cache) <= MAX_CACHE_SIZE

\* A set that found the cache full has run cleanup and leaves it full again.
C1_Witness ==
  /\ last.op = "set"
  /\ last.cleaned
  /\ Len(cache) = MAX_CACHE_SIZE

\* C2: get of an entry older than CACHE_TTL returns nothing and deletes the
\* entry, so the cache has one entry less, and leaves the stats (the hits and
\* sets of the key included) as they were.
C2_GetExpired ==
  [][ (/\ last'.op = "get"
       /\ MapHas(cache, last'.key)
       /\ Age(cache, last'.key, now) > CACHE_TTL)
      => /\ last'.ret = NoData
         /\ ~MapHas(cache', last'.key)
         /\ Len(cache') = Len(cache) - 1
         /\ cache' = MapDelete(cache, last'.key)
         /\ stats' = stats
         /\ MapHas(stats', last'.key)
    ]_vars

\* A get has just expired an entry whose key has been set.
C2_Witness ==
  /\ last.op = "get"
  /\ last.got = "expired"
  /\ SetsOf(stats, last.key) >= 1

\* C3: get of an entry of age <= CACHE_TTL returns the data of the latest set
\* of the key, adds exactly 1 to the key's hits and changes neither the cache,
\* nor the key's sets, nor the stats of another key; a get that returns data
\* returns data of age <= CACHE_TTL.  The data of an entry is that of the
\* latest set of its key because set stores its argument and no other step
\* changes or creates an entry.
C3_GetValid ==
  [][ /\ (/\ last'.op = "get"
          /\ MapHas(cache, last'.key)
          /\ Age(cache, last'.key, now) <= CACHE_TTL)
         => /\ last'.ret = MapGet(cache, last'.key).data
            /\ HitsOf(stats', last'.key) = HitsOf(stats, last'.key) + 1
            /\ SetsOf(stats', last'.key) = SetsOf(stats, last'.key)
            /\ cache' = cache
            /\ MapKeys(stats') = MapKeys(stats) \cup {last'.key}
            /\ \A j \in MapKeys(stats) \ {last'.key} :
                 MapGet(stats', j) = MapGet(stats, j)
      /\ (last'.op = "get" /\ last'.ret # NoData)
         => /\ MapHas(cache, last'.key)
            /\ Age(cache, last'.key, now) <= CACHE_TTL
      /\ last'.op = "set" => MapGet(cache', last'.key).data = last'.ret
      /\ \A j \in MapKeys(cache') :
           \/ last'.op = "set" /\ last'.key = j
           \/ MapHas(cache, j) /\ MapGet(cache', j) = MapGet(cache, j)
    ]_vars

\* A get has just returned an entry of age exactly CACHE_TTL.
C3_Witness ==
  /\ last.op = "get"
  /\ last.got = "hit"
  /\ MapHas(cache, last.key)
  /\ Age(cache, last.key, now) = CACHE_TTL
  /\ last.ret = MapGet(cache, last.key).data

\* C4: set always stores: right after set(clienteId, data) the cache holds an
\* entry of the key with that data and the timestamp now, the key's sets have
\* grown by exactly 1, and cleanup ran, before the insert, exactly when the
\* cache held MAX_CACHE_SIZE entries or more at the call; without cleanup the
\* other entries are kept.
C4_SetStores ==
  [][ last'.op = "set"
      => /\ MapHas(cache', last'.key)
         /\ MapGet(cache', last'.key).data = last'.ret
         /\ MapGet(cache', last'.key).timestamp = now
         /\ SetsOf(stats', last'.key) = SetsOf(stats, last'.key) + 1
         /\ last'.cleaned <=> Len(cache) >= MAX_CACHE_SIZE
         /\ Len(cache) >= MAX_CACHE_SIZE
            => /\ last'.evicted # {}
               /\ last'.evicted \subseteq MapKeys(cache)
               /\ MapKeys(cache') = (MapKeys(cache) \ last'.evicted) \cup {last'.key}
         /\ Len(cache) < MAX_CACHE_SIZE
            => /\ last'.evicted = {}
               /\ MapKeys(cache') = MapKeys(cache) \cup {last'.key}
    ]_vars

\* A set of a key held by a full cache: cleanup deleted the key's entry and
\* set stored it again.
C4_Witness ==
  /\ last.op = "set"
  /\ last.cleaned
  /\ last.key \in last.evicted
  /\ MapHas(cache, last.key)

\* C5: cleanup of n entries deletes exactly ceil(0.2 n) of them, the lowest by
\* (hits, timestamp): each deleted entry has fewer hits than each entry kept,
\* or as many hits and a timestamp that is not newer.
C5_EvictLowest ==
  [][ last'.op = "sweep"
      => LET n       == Len(cache)
             removed == MapKeys(cache) \ MapKeys(cache')
         IN  /\ 5 * Cardinality(removed) >= n
             /\ 5 * (Cardinality(removed) - 1) < n
             /\ Len(cache') = n - Cardinality(removed)
             /\ removed = last'.evicted
             /\ \A j \in MapKeys(cache') :
                  MapHas(cache, j) /\ MapGet(cache', j) = MapGet(cache, j)
             /\ \A r \in removed : \A e \in MapKeys(cache') :
                  \/ HitsOf(stats, r) < HitsOf(stats, e)
                  \/ /\ HitsOf(stats, r) = HitsOf(stats, e)
                     /\ MapGet(cache, r).timestamp <= MapGet(cache, e).timestamp
    ]_vars

\* A cleanup has deleted two entries and kept four, among them one with as
\* many hits as a deleted one and one with more.
C5_Witness ==
  /\ last.op = "sweep"
  /\ Cardinality(last.evicted) = 2
  /\ Len(cache) = 4
  /\ \E e \in MapKeys(cache) : HitsOf(stats, e) = 1
  /\ \E e \in MapKeys(cache) : \E r \in last.evicted :
       HitsOf(stats, e) = HitsOf(stats, r)

\* ------------------------------------------------------------------------
\* Properties of /completo and /visibles (Spec)
\* ------------------------------------------------------------------------
\* The products an accessor's value carries: the bare array, or the array in
\* the envelope's lista_precios.
ProductsOf(v) ==
  IF v.t = "arr" \/ (v.t = "env" /\ v.lpt = "arr") THEN v.a ELSE <<>>

\* The outcome of the request in slot i when its awaited accessor call ends
\* with res.
Resumed(i, res) ==
  IF reqs[i].pc = "primary"
  THEN completoPrimary(cache, stats, now, reqs[i], res)
  ELSE completoFallback(cache, stats, now, reqs[i], res)

InFlight(i) == reqs[i].pc \in {"primary", "fallback"}

\* C6: without fuerza_actualizacion and with an entry of age <= CACHE_TTL
\* for the client, /completo issues no upstream fetch and calls no set; it
\* answers lista_precios, mapa_precios and total_productos of the entry with
\* desde_cache true, and leaves the entry as it is, so that the next such
\* request answers the same.
C6_ServedFromCache ==
  [][ /\ \A raw \in RawIds :
           (/\ Trim(raw) # <<>>
            /\ MapHas(cache, Trim(raw))
            /\ Age(cache, Trim(raw), now) <= CACHE_TTL)
           => LET h == completoStart(cache, stats, now, raw, FALSE)
                  d == MapGet(cache, Trim(raw)).data
              IN  /\ h.next = "respond"
                  /\ h.resp.status = 200
                  /\ h.resp.desde_cache
                  /\ h.resp.lista_precios = d.lista_precios
                  /\ h.resp.mapa_precios = d.mapa_precios
                  /\ h.resp.total_productos = d.total_productos
                  /\ h.resp.metadata = d.metadata
                  /\ h.cache = cache
      /\ last'.op = "fetch_hit"
         => /\ reqs' = reqs
            /\ cache' = cache
            /\ ~last'.didSet
            /\ \A j \in MapKeys(stats') : SetsOf(stats', j) = SetsOf(stats, j)
    ]_vars

\* /completo has answered the client from the cache for the second time.
C6_Witness ==
  /\ last.op = "fetch_hit"
  /\ last.got = "hit"
  /\ HitsOf(stats, last.key) = 2
  /\ \A i \in Slots : reqs[i].pc = "idle"

\* C7: a /completo whose fetch yields no product answers 200 with success
\* and total_productos = 0, calls no set and leaves the cache as it is; a
\* later request without fuerza_actualizacion for a client with no entry
\* issues the upstream fetch.
C7_EmptyNotStored ==
  /\ \A i \in Slots :
       InFlight(i)
       => \A res \in ResultsFor(i) :
            (~res.threw /\ Resumed(i, res).resp.lista_precios = <<>>)
            => LET h == Resumed(i, res)
               IN  /\ h.resp.status = 200
                   /\ h.resp.success
                   /\ h.resp.total_productos = 0
                   /\ ~h.didSet
                   /\ h.cache = cache
                   /\ h.stats = stats
  /\ \A raw \in RawIds :
       (Trim(raw) # <<>> /\ ~MapHas(cache, Trim(raw)))
       => completoStart(cache, stats, now, raw, FALSE).next = "await_primary"

\* C8: when the primary and the fallback fetch both throw, /completo answers
\* 500 with the error and without price data, cached or not; none of its
\* steps from the first fetch on calls set or changes the cache or the stats.
C8_BothFail ==
  [][ /\ \A i \in Slots :
           reqs[i].pc = "fallback"
           => \A res \in ResultsFor(i) :
                res.threw
                => LET h == completoFallback(cache, stats, now, reqs[i], res)
                   IN  /\ h.resp.status = 500
                       /\ ~h.resp.success
                       /\ "lista_precios" \notin DOMAIN h.resp
                       /\ ~h.didSet
                       /\ h.cache = cache
                       /\ h.stats = stats
      /\ last'.op \in {"primary_failed", "fetch_error"}
         => /\ cache' = cache
            /\ stats' = stats
            /\ ~last'.didSet
    ]_vars

\* A request with fuerza_actualizacion for a client with an entry of age
\* <= CACHE_TTL has ended with both fetches failed.
C8_Witness ==
  /\ last.op = "fetch_error"
  /\ MapHas(cache, last.key)
  /\ Age(cache, last.key, now) <= CACHE_TTL

\* C9: when the primary or the fallback fetch of /completo returns one
\* product or more, as a bare array or in an envelope, the request ends with
\* set called and the cache holding the client's entry with the optimized
\* list.
C9_StoredWhenProducts ==
  \A i \in Slots :
    InFlight(i)
    => \A res \in ResultsFor(i) :
         (~res.threw /\ Len(ProductsOf(res.value)) >= 1)
         => LET h == Resumed(i, res)
                k == Trim(reqs[i].raw)
                o == optimizePriceData(Arr(ProductsOf(res.value)),
                                       reqs[i].formato)
            IN  /\ h.didSet
                /\ MapHas(h.cache, k)
                /\ MapGet(h.cache, k).data.lista_precios = o.lista_precios
                /\ MapGet(h.cache, k).data.total_productos
                     = Len(ProductsOf(res.value))

\* C10: for a client with no entry, /visibles answers skus_encontrados = 0
\* and skus_solicitados = the number of SKUs processed, each SKU carrying the
\* advertencia, and issues no upstream fetch.
C10_UncachedNoneFound ==
  \A raw \in RawIds : \A q \in SkuQueries \ {<<>>} :
    ~MapHas(cache, raw)
    => LET h == visibles(cache, stats, now, raw, q)
       IN  /\ h.resp.skus_encontrados = 0
           /\ h.resp.skus_solicitados = Len(SkuArray(q))
           /\ \A j \in 1..Len(h.resp.productos) :
                "advertencia" \in DOMAIN h.resp.productos[j]
           /\ h.cache = cache
           /\ h.stats = stats

\* C11: /visibles issues no upstream fetch and calls neither set, nor delete,
\* nor cleanup: the request slots are as before, and the cache and the stats
\* change only as the one get of the request's key changes them, that is not
\* at all, or by one more hit of a valid entry, or by the removal of an
\* expired entry.
C11_VisibleCacheOnly ==
  [][ last'.op = "visible"
      => /\ reqs' = reqs
         /\ ~last'.didSet
         /\ ~last'.cleaned
         /\ \E raw \in RawIds :
              \/ /\ last'.got \in {"none", "absent"}
                 /\ last'.got = "absent" => ~MapHas(cache, raw)
                 /\ cache' = cache
                 /\ stats' = stats
              \/ /\ last'.got = "hit"
                 /\ MapHas(cache, raw)
                 /\ Age(cache, raw, now) <= CACHE_TTL
                 /\ cache' = cache
                 /\ stats' = updateStats(stats, raw, "hit")
                 /\ HitsOf(stats', raw) = HitsOf(stats, raw) + 1
                 /\ SetsOf(stats', raw) = SetsOf(stats, raw)
              \/ /\ last'.got = "expired"
                 /\ MapHas(cache, raw)
                 /\ Age(cache, raw, now) > CACHE_TTL
                 /\ cache' = MapDelete(cache, raw)
                 /\ stats' = stats
    ]_vars

\* /visibles has read a valid entry while a /completo request is suspended.
C11_Witness ==
  /\ last.op = "visible"
  /\ last.got = "hit"
  /\ \E i \in Slots : InFlight(i)

\* ------------------------------------------------------------------------
\* optimizePriceData alone: one call per behaviour, its arguments drawn from
\* the lists of up to MaxProducts products (a product without articulo and
\* products that share an articulo included) and from the values that are no
\* array.  The variable last holds the call and then what it returned.
\* ------------------------------------------------------------------------
OptSkus == { <<"A">>, <<"B">>, <<>> }

\* A price that the product lacks reads as 0 (`|| 0`).
OptPrices == {0, 50, 80, 100}

\* A nombre of n characters whose characters after the first NAME_MAX differ
\* from those before.
MaxNameLen == 200
LongName(n) == [i \in 1..n |-> IF i <= NAME_MAX THEN "x" ELSE "y"]

\* <<>> is the nombre of a product without one.
OptNames == { <<>>, LongName(NAME_MAX), LongName(NAME_MAX + 1), LongName(MaxNameLen) }

OptProducts ==
  { Product(s, <<"a">>, pf, pl) : s \in OptSkus, pf \in OptPrices, pl \in OptPrices }
  \cup { Product(<<"A">>, n, 80, 100) : n \in OptNames }

OptInputs ==
  { Arr(l) : l \in UNION { [1..n -> OptProducts] : n \in 0..MaxProducts } }
  \cup { Obj, Null }

InitOptimize ==
  /\ cache = <<>>
  /\ stats = <<>>
  /\ now = 0
  /\ reqs = [i \in Slots |-> Idle]
  /\ \E p \in OptInputs : \E f \in Formatos :
       last = [op |-> "call", prices |-> p, formato |-> f]

Optimize ==
  /\ last.op = "call"
  /\ last' = [op |-> "return", prices |-> last.prices, formato |-> last.formato,
              out |-> optimizePriceData(last.prices, last.formato)]
  /\ UNCHANGED <<cache, stats, now, reqs>>

SpecOptimize == InitOptimize /\ [][Optimize]_vars

\* C12: in what optimizePriceData returns for the format "optimizado", two
\* products with one articulo and different prices included, the s of every
\* item of lista_precios is a key of mapa_precios (once: the map has one
\* entry per key), and precio_final and precio_lista under that key are the
\* pf and pl of the item.
C12_IndexMatchesList ==
  (last.op = "return" /\ last.formato = "optimizado")
  => /\ last.out.mapa_precios.def
     /\ \A i \in 1..Len(last.out.lista_precios) :
          LET item == last.out.lista_precios[i]
              m    == last.out.mapa_precios.m
          IN  /\ item.s \in DOMAIN m
              /\ m[item.s].precio_final = item.pf
              /\ m[item.s].precio_lista = item.pl

\* C13: /completo with an empty or whitespace-only codigoCliente answers the
\* 400 validation error, with or without fuerza_actualizacion, issues no
\* upstream fetch and leaves the cache and the stats as they are.
C13_BlankRejected ==
  [][ /\ \A raw \in RawIds \cup {<<>>} : \A fuerza \in BOOLEAN :
           Trim(raw) = <<>>
           => LET h == completoStart(cache, stats, now, raw, fuerza)
              IN  /\ h.next = "respond"
                  /\ h.resp = ValidationResponse
                  /\ h.resp.status = 400
                  /\ h.cache = cache
                  /\ h.stats = stats
      /\ last'.op = "fetch_invalid"
         => /\ reqs' = reqs
            /\ cache' = cache
            /\ stats' = stats
            /\ ~last'.didSet
    ]_vars

\* A blank identifier has been rejected while the cache holds an entry.
C13_Witness ==
  /\ last.op = "fetch_invalid"
  /\ Len(cache) >= 1
  /\ \A i \in Slots : reqs[i].pc = "idle"

\* C14: with fuerza_actualizacion = "true" /completo calls no get, so that
\* no hit is counted and no expired entry removed, and issues the primary
\* fetch, also when the cache holds an entry of age <= CACHE_TTL for the
\* client.
C14_ForcedSkipsCache ==
  [][ /\ \A raw \in RawIds :
           Trim(raw) # <<>>
           => LET h == completoStart(cache, stats, now, raw, TRUE)
              IN  /\ h.next = "await_primary"
                  /\ h.got = "none"
                  /\ h.cache = cache
                  /\ h.stats = stats
      /\ (last'.op = "fetch_miss" /\ last'.got = "none")
         => /\ cache' = cache
            /\ stats' = stats
            /\ \E i \in Slots : reqs[i].pc = "idle" /\ reqs'[i].pc = "primary"
    ]_vars

\* A forced request has issued its primary fetch while the cache holds an
\* entry of age <= CACHE_TTL for its client.
C14_Witness ==
  /\ last.op = "fetch_miss"
  /\ last.got = "none"
  /\ \E i \in Slots :
       /\ reqs[i].pc = "primary"
       /\ MapHas(cache, Trim(reqs[i].raw))
       /\ Age(cache, Trim(reqs[i].raw), now) <= CACHE_TTL

\* The request for raw suspended at the await named pc since time t.
Suspended(pc, raw, t) ==
  [pc |-> pc, raw |-> raw, formato |-> "optimizado", startTime |-> t,
   calls |-> IF pc = "primary" THEN 1 ELSE 2]

\* C15: when a /completo with fuerza_actualizacion = "true" for a client
\* with a cache entry ends with the 200 answer, whatever the number of
\* products fetched (by the primary or by the fallback fetch), the entry it
\* found is replaced: the cache then holds for the client the data this
\* request stored, or nothing.
C15_RefreshOverwrites ==
  \A raw \in RawIds :
    (Trim(raw) # <<>> /\ MapHas(cache, Trim(raw)))
    => LET k  == Trim(raw)
           h0 == completoStart(cache, stats, now, raw, TRUE)
       IN  \A res \in AccessorResults(IncludesAt(k)) :
             ~res.threw
             => \A pc \in {"primary", "fallback"} :
                  LET h == IF pc = "primary"
                           THEN completoPrimary(h0.cache, h0.stats, now,
                                                Suspended(pc, raw, now), res)
                           ELSE completoFallback(h0.cache, h0.stats, now,
                                                 Suspended(pc, raw, now), res)
                  IN  h.resp.status = 200
                      => \/ ~MapHas(h.cache, k)
                         \/ /\ h.didSet
                            /\ MapGet(h.cache, k).data = h.stored

\* C16: delete(clienteId) removes the entry of the key and nothing else: the
\* stats and the other entries, in their order, are as before; for a key
\* without entry nothing changes, so that a second delete of the key leaves
\* the state the first one left.
C16_DeleteFrame ==
  [][ last'.op = "delete"
      => /\ cache' = MapDelete(cache, last'.key)
         /\ ~MapHas(cache', last'.key)
         /\ stats' = stats
         /\ \A j \in MapKeys(cache) \ {last'.key} :
              MapHas(cache', j) /\ MapGet(cache', j) = MapGet(cache, j)
         /\ MapKeys(cache') = MapKeys(cache) \ {last'.key}
         /\ ~MapHas(cache, last'.key) => cache' = cache
         /\ delete(cache', last'.key) = cache'
    ]_vars

\* A delete has removed the entry of a key and kept the key's stats and
\* another entry.
C16_Witness ==
  /\ last.op = "delete"
  /\ last.got = "present"
  /\ MapHas(stats, last.key)
  /\ ~MapHas(cache, last.key)
  /\ Len(cache) >= 1

\* ------------------------------------------------------------------------
\* Two /completo requests at a time, without fuerza_actualizacion: the
\* handler is async, so a second request can run while the first is
\* suspended at an await.
\* ------------------------------------------------------------------------
RaceSlots == {1, 2}

RaceIds == { <<"K">>, <<"m", "@">> }

InitRace ==
  /\ cache = <<>>
  /\ stats = <<>>
  /\ now = 0
  /\ reqs = [i \in RaceSlots |-> Idle]
  /\ last = Step("init", NoKey)

NextRace ==
  \/ Tick
  \/ \E i \in RaceSlots : \E raw \in RaceIds : FetchHit(i, raw, "optimizado")
  \/ \E i \in RaceSlots : \E raw \in RaceIds : FetchMiss(i, raw, FALSE, "optimizado")
  \/ \E i \in RaceSlots : \E res \in ResultsFor(i) : PrimaryReturns(i, res)
  \/ \E i \in RaceSlots : \E res \in ResultsFor(i) : PrimaryThrows(i, res)
  \/ \E i \in RaceSlots : \E res \in ResultsFor(i) : FallbackReturns(i, res)
  \/ \E i \in RaceSlots : \E res \in ResultsFor(i) : FallbackThrows(i, res)

SpecRace == InitRace /\ [][NextRace]_vars

\* C17: a request that finds no valid entry for its client issues the
\* upstream fetch also while another request for the same client is
\* suspended (no single flight); each request that stores succeeds: after
\* its set the cache holds exactly one entry for the client, with the data
\* this request stored, whichever request started first, and the client's
\* sets have grown by 1 (by 2 after both).
C17_LastWriteWins ==
  [][ /\ \A i \in RaceSlots : \A j \in RaceSlots \ {i} : \A raw \in RaceIds :
           (/\ reqs[i].pc = "idle"
            /\ InFlight(j)
            /\ reqs[j].raw = raw
            /\ ~(MapHas(cache, raw) /\ Age(cache, raw, now) <= CACHE_TTL))
           => completoStart(cache, stats, now, raw, FALSE).next = "await_primary"
      /\ last'.didSet
         => \E i \in RaceSlots : \E res \in ResultsFor(i) :
              LET h == Resumed(i, res)
                  k == Trim(reqs[i].raw)
              IN  /\ InFlight(i)
                  /\ ~res.threw
                  /\ h.didSet
                  /\ cache' = h.cache
                  /\ stats' = h.stats
                  /\ reqs'[i].pc = "idle"
                  /\ last'.key = k
                  /\ Cardinality({n \in 1..Len(cache') : cache'[n].key = k}) = 1
                  /\ MapGet(cache', k).data = h.stored
                  /\ MapGet(cache', k).timestamp = now
                  /\ SetsOf(stats', k) = SetsOf(stats, k) + 1
    ]_vars

\* Both requests have stored for the same client.  The request that stored
\* last started (its set's timestamp less its fetch time) at a time <=
\* CACHE_TTL and found no valid entry, so the other request's set, which
\* needs no more than CACHE_TTL to expire, came after that start: the two
\* requests overlapped.
C17_Witness ==
  /\ last.didSet
  /\ \A i \in RaceSlots : reqs[i].pc = "idle"
  /\ Len(cache) = 1
  /\ SetsOf(stats, last.key) = 2
  /\ HitsOf(stats, last.key) = 0
  /\ MapGet(cache, last.key).timestamp
       - MapGet(cache, last.key).data.metadata.tiempo_obtencion_ms <= CACHE_TTL
  /\ MapGet(cache, last.key).data.metadata.tiempo_obtencion_ms >= 1

\* ------------------------------------------------------------------------
\* The skuArray of /visibles alone: one evaluation per behaviour, for every
\* non-empty value of the query parameter skus of up to MaxSkuLen characters
\* out of "A", "B", "," and " ", and for a list of MAX_SKUS + 1 SKUs.
\* ------------------------------------------------------------------------
SkuAlphabet == {"A", "B", ",", " "}

\* "001,002,...": n SKUs of three digits each
ManySkus(n) ==
  [i \in 1..(4 * n - 1) |->
     LET sku == ((i - 1) \div 4) + 1
         pos == (i - 1) % 4
     IN  CASE pos = 0 -> Digit(sku \div 100)
           [] pos = 1 -> Digit((sku \div 10) % 10)
           [] pos = 2 -> Digit(sku % 10)
           [] OTHER   -> ","]

SkuInputs ==
  UNION { [1..n -> SkuAlphabet] : n \in 1..MaxSkuLen }
  \cup { ManySkus(MAX_SKUS + 1) }

InitSkus ==
  /\ cache = <<>>
  /\ stats = <<>>
  /\ now = 0
  /\ reqs = [i \in Slots |-> Idle]
  /\ \E q \in SkuInputs : last = [op |-> "call", skus |-> q]

SplitSkus ==
  /\ last.op = "call"
  /\ last' = [op |-> "return", skus |-> last.skus, out |-> SkuArray(last.skus)]
  /\ UNCHANGED <<cache, stats, now, reqs>>

SpecSkus == InitSkus /\ [][SplitSkus]_vars

\* C18: the skuArray /visibles processes holds trimmed, non-empty SKUs, no
\* SKU twice, and at most MAX_SKUS of them, the excess being dropped.
C18_SkusDistinctCapped ==
  last.op = "return"
  => /\ Len(last.out) <= MAX_SKUS
     /\ \A i \in 1..Len(last.out) :
          last.out[i] # <<>> /\ Trim(last.out[i]) = last.out[i]
     /\ \A i \in 1..Len(last.out) : \A j \in 1..Len(last.out) :
          last.out[i] = last.out[j] => i = j

\* C19: for a client with a cache entry of age <= CACHE_TTL that has a
\* mapa_precios, /visibles answers in productos exactly the processed SKUs
\* that are keys of the mapa_precios, in their order, each with the
\* precio_final and precio_lista stored under the key; the other SKUs are
\* left out, and skus_encontrados <= skus_solicitados.
C19_FoundAreIndexKeys ==
  \A raw \in RawIds : \A q \in SkuQueries \ {<<>>} :
    (/\ MapHas(cache, raw)
     /\ Age(cache, raw, now) <= CACHE_TTL
     /\ MapGet(cache, raw).data.mapa_precios.def)
    => LET h      == visibles(cache, stats, now, raw, q)
           m      == MapGet(cache, raw).data.mapa_precios.m
           expect == SelectSeq(SkuArray(q), LAMBDA x : x \in DOMAIN m)
       IN  /\ h.resp.status = 200
           /\ Len(h.resp.productos) = Len(expect)
           /\ \A i \in 1..Len(expect) :
                /\ h.resp.productos[i].articulo = expect[i]
                /\ h.resp.productos[i].precio_final = m[expect[i]].precio_final
                /\ h.resp.productos[i].precio_lista = m[expect[i]].precio_lista
           /\ h.resp.skus_encontrados = Len(expect)
           /\ h.resp.skus_solicitados = Len(SkuArray(q))
           /\ h.resp.skus_encontrados <= h.resp.skus_solicitados

\* The option intentos the handler passes to the accessor of the primary
\* fetch.
Intentos(esEmail) == IF esEmail THEN 2 ELSE 3

\* C20: when the primary fetch keeps failing, /completo has made as many
\* attempts of it as the retry budget it asks for, 2 for an email and 3 for a
\* client code, when it issues the fallback fetch.
C20_RetryBudgetUsed ==
  \A i \in Slots :
    reqs[i].pc = "fallback"
    => reqs[i].calls - 1 = Intentos(IncludesAt(Trim(reqs[i].raw)))
\* C21: in /completo the fallback fetch is issued only after the primary
\* fetch of the same request has thrown, and once per request: a request
\* waiting for its fallback fetch has issued two upstream calls and is
\* answered by the next step that touches it.  When the fallback fetch
\* returns, the request is answered 200 with success true.  A request served
\* from the cache issues neither fetch.
C21_FallbackAfterPrimary ==
  [][ /\ \A i \in Slots :
           /\ (reqs'[i].pc = "fallback" /\ reqs[i].pc # "fallback")
              => /\ reqs[i].pc = "primary"
                 /\ last'.op = "primary_failed"
                 /\ reqs'[i].calls = 2
           /\ reqs[i].pc = "fallback"
              => /\ reqs[i].calls = 2
                 /\ reqs'[i] # reqs[i] => reqs'[i] = Idle
                 /\ \A res \in ResultsFor(i) :
                      ~res.threw
                      => LET h == completoFallback(cache, stats, now, reqs[i], res)
                         IN  /\ h.resp.status = 200
                             /\ h.resp.success
           /\ reqs[i].pc = "primary" => reqs[i].calls = 1
      /\ last'.op = "fallback_done"
         => \E i \in Slots : reqs[i].pc = "fallback" /\ reqs'[i] = Idle
      /\ last'.op = "fetch_hit" => reqs' = reqs
    ]_vars

\* A request whose primary fetch threw has been answered from its fallback
\* fetch.
C21_Witness ==
  /\ last.op = "fallback_done"
  /\ \A i \in Slots : reqs[i] = Idle
\* C22: the normalisation of what the primary fetch of /completo returned:
\* a bare array, and an envelope whose lista_precios is an array, give that
\* array of products with total_productos its length; any other value (null,
\* an object without lista_precios, an envelope whose lista_precios is not an
\* array) gives the empty list, answered 200 with total_productos 0.
C22_NormalizeShapes ==
  \A i \in Slots :
    reqs[i].pc = "primary"
    => \A res \in ResultsFor(i) :
         ~res.threw
         => LET v == res.value
                n == NormalizePrimary(v)
                h == completoPrimary(cache, stats, now, reqs[i], res)
            IN  IF v.t = "arr" \/ (v.t = "env" /\ v.lpt = "arr")
                THEN /\ n.listaPrecios = Arr(v.a)
                     /\ n.totalProductos = Len(v.a)
                     /\ h.resp.status = 200
                ELSE /\ h.resp.status = 200
                     /\ h.resp.success
                     /\ h.resp.lista_precios = <<>>
                     /\ h.resp.total_productos = 0
\* C23: when the primary and the fallback fetch of /completo have both
\* thrown, the 500 response carries the message of the upstream failure, and
\* a fetch that threw never ends in a 200 response.
C23_UpstreamMessage ==
  \A i \in Slots :
    reqs[i].pc = "fallback"
    => \A res \in ResultsFor(i) :
         res.threw
         => LET h == completoFallback(cache, stats, now, reqs[i], res)
            IN  /\ h.resp.status = 500
                /\ ~h.resp.success
                /\ h.resp.message = res.message
\* C24: in what optimizePriceData returns for the format "optimizado", the
\* d of every item is true exactly when the precio_lista of its product is
\* greater than its precio_final (a missing price being 0), mapa_precios
\* holds the same flag under the item's s, and tiene_descuentos is true
\* exactly when the d of some item is.
C24_DiscountFlags ==
  (last.op = "return" /\ last.formato = "optimizado" /\ last.prices.t = "arr")
  => LET raw   == last.prices.a
         items == last.out.lista_precios
         m     == last.out.mapa_precios.m
     IN  /\ Len(items) = Len(raw)
         /\ \A i \in 1..Len(items) :
              /\ items[i].d = (raw[i].precio_lista > raw[i].precio_final)
              /\ items[i].s \in DOMAIN m
              /\ m[items[i].s].tiene_descuento = items[i].d
         /\ last.out.tiene_descuentos = (\E i \in 1..Len(items) : items[i].d)
\* C25: optimizePriceData with a format other than "optimizado" returns, for
\* every input, the raw products unchanged and in their order as
\* lista_precios, and leaves mapa_precios undefined.
C25_FullIsRaw ==
  (last.op = "return" /\ last.formato # "optimizado")
  => /\ last.out.lista_precios = last.prices.a
     /\ ~last.out.mapa_precios.def

\* C25, for the inputs that pass the guard: optimizePriceData with a format
\* other than "optimizado" on a non-empty array returns the raw products
\* unchanged and in their order as lista_precios, with total_productos their
\* number, and leaves mapa_precios undefined; on an empty array or a
\* non-array it returns the empty list with mapa_precios the empty map.
C25_FullIsRawNonEmpty ==
  (last.op = "return" /\ last.formato # "optimizado")
  => IF last.prices.t = "arr" /\ Len(last.prices.a) > 0
     THEN /\ last.out.lista_precios = last.prices.a
          /\ last.out.total_productos = Len(last.prices.a)
          /\ ~last.out.mapa_precios.def
     ELSE /\ last.out.lista_precios = <<>>
          /\ last.out.mapa_precios = MapaDefined(<<>>)

\* optimizePriceData has returned for the format "completo" and a list of two
\* different products.
C25_Witness ==
  /\ last.op = "return"
  /\ last.formato = "completo"
  /\ last.prices.t = "arr"
  /\ Len(last.prices.a) = 2
  /\ last.prices.a[1] # last.prices.a[2]
\* C26: optimizePriceData on an empty array or on a value that is no array
\* returns, for either format, the empty lista_precios, mapa_precios the
\* empty map, total_productos 0 and tiene_descuentos false.
C26_EmptyInput ==
  (last.op = "return" /\ (last.prices.t # "arr" \/ Len(last.prices.a) = 0))
  => /\ last.out.lista_precios = <<>>
     /\ last.out.mapa_precios.def
     /\ DOMAIN last.out.mapa_precios.m = {}
     /\ last.out.total_productos = 0
     /\ ~last.out.tiene_descuentos

\* optimizePriceData has returned for null and the format "completo".
C26_Witness ==
  /\ last.op = "return"
  /\ last.prices = Null
  /\ last.formato = "completo"
\* C27: in what optimizePriceData returns for the format "optimizado", the n
\* of every item is the first NAME_MAX characters of the nombre of its
\* product: the whole nombre when it has NAME_MAX characters or fewer, NAME_MAX
\* characters when it has more, and the empty string when the product has no
\* nombre.
C27_NameTruncated ==
  (last.op = "return" /\ last.formato = "optimizado" /\ last.prices.t = "arr")
  => \A i \in 1..Len(last.out.lista_precios) :
       LET nombre == last.prices.a[i].nombre
           n      == last.out.lista_precios[i].n
       IN  /\ Len(nombre) <= NAME_MAX => n = nombre
           /\ Len(nombre) > NAME_MAX
              => /\ Len(n) = NAME_MAX
                 /\ \A j \in 1..NAME_MAX : n[j] = nombre[j]

\* optimizePriceData has returned a list with the items of a product without
\* nombre and of one whose nombre has MaxNameLen characters.
C27_Witness ==
  /\ last.op = "return"
  /\ last.formato = "optimizado"
  /\ last.prices.t = "arr"
  /\ Len(last.prices.a) = 2
  /\ last.prices.a[1].nombre = <<>>
  /\ Len(last.prices.a[2].nombre) = MaxNameLen
  /\ Len(last.out.lista_precios[2].n) = NAME_MAX
\* C28: the stats entry of a key is created by the first get or the first
\* set of the key, whichever comes first, a get that finds no entry included;
\* from then on the entry stays in the stats map at its place and is only
\* updated.
C28_StatsCreated ==
  [][ /\ last'.op \in {"get", "set"} => MapHas(stats', last'.key)
      /\ \A k \in CacheKeys :
           MapHas(stats, k)
           => /\ MapHas(stats', k)
              /\ MapIndex(stats', k) = MapIndex(stats, k)
    ]_vars
\* C28, as the code has it: the stats entry of a key is created by the first
\* set of the key.  A get creates none: one that finds no entry or an expired
\* one leaves the stats map as it is, and one that hits updates the entry that
\* the set made.  An entry of the stats map stays in it at its place.
C28_StatsCreatedBySet ==
  [][ /\ last'.op = "set" => MapHas(stats', last'.key)
      /\ last'.op = "get"
         => /\ MapKeys(stats') = MapKeys(stats)
            /\ last'.got # "hit" => stats' = stats
            /\ last'.got = "hit" => MapHas(stats, last'.key)
      /\ \A k \in CacheKeys :
           MapHas(stats, k)
           => /\ MapHas(stats', k)
              /\ MapIndex(stats', k) = MapIndex(stats, k)
    ]_vars

\* A get has found no entry for a key that was never set: the key has no
\* stats entry, while another key has one.
C28_Witness ==
  /\ last.op = "get"
  /\ last.got = "absent"
  /\ ~MapHas(stats, last.key)
  /\ stats # <<>>
\* C29: a get that finds an expired entry removes it and leaves the stats
\* entry of the key, whereas cleanup removes the stats entry of every key it
\* evicts, when run by the timer and when run by a set on a full cache (the
\* key being set gets its stats entry again).
C29_EvictDropsStats ==
  [][ /\ (last'.op = "get" /\ last'.got = "expired")
         => /\ ~MapHas(cache', last'.key)
            /\ stats' = stats
      /\ last'.cleaned
         => \A k \in last'.evicted \ {last'.key} : ~MapHas(stats', k)
    ]_vars

\* C29, as the code has it: neither removal touches the stats.  A get that
\* finds an expired entry removes it and leaves the stats map as it is; a
\* cleanup removes cache entries only, so that every key it evicts keeps its
\* stats entry with the same hits and sets (the set that ran the cleanup
\* counts one more set for its own key).
C29_StatsOutliveEntries ==
  [][ /\ (last'.op = "get" /\ last'.got = "expired")
         => /\ ~MapHas(cache', last'.key)
            /\ stats' = stats
      /\ last'.op = "sweep" => stats' = stats
      /\ last'.cleaned
         => \A k \in last'.evicted :
              /\ MapHas(stats, k)
              /\ MapHas(stats', k)
              /\ k # last'.key => MapGet(stats', k) = MapGet(stats, k)
    ]_vars

\* The timer's cleanup has evicted keys, which have no cache entry and still
\* have their stats entry.
C29_Witness ==
  /\ last.op = "sweep"
  /\ last.evicted # {}
  /\ \A k \in last.evicted : ~MapHas(cache, k) /\ MapHas(stats, k)
\* The cache populated as for SpecEvict, swept by the timer and read by
\* getStats and by the route /lista-precios/estadisticas.
NextStats ==
  \/ Sweep
  \/ GetStats
  \/ Estadisticas

SpecStats == InitEvict /\ [][NextStats]_vars

\* C30: getStats returns total_clientes equal to the number of cache entries
\* and clientes_mas_activos holding at most TOP_ACTIVE clients of the stats
\* map, each once and with its hits, in non-increasing order of hits, such
\* that no client of the stats map left out has more hits than one listed.  A
\* listed client need not have a cache entry.
C30_StatsTopActive ==
  last.op = "stats"
  => LET top    == last.ret.clientes_mas_activos
         listed == { top[i].cliente : i \in 1..Len(top) }
     IN  /\ last.ret.total_clientes = Len(cache)
         /\ Len(top) <= TOP_ACTIVE
         /\ Len(top) = TOP_ACTIVE \/ Len(top) = Len(stats)
         /\ \A i \in 1..Len(top) :
              /\ MapHas(stats, top[i].cliente)
              /\ top[i].hits = HitsOf(stats, top[i].cliente)
              /\ \A j \in 1..Len(top) :
                   /\ i < j => top[i].hits >= top[j].hits
                   /\ i # j => top[i].cliente # top[j].cliente
              /\ \A k \in MapKeys(stats) \ listed :
                   HitsOf(stats, k) <= top[i].hits

\* getStats has listed TOP_ACTIVE clients with different hits out of more,
\* one of them without a cache entry.
C30_Witness ==
  /\ last.op = "stats"
  /\ Len(stats) > TOP_ACTIVE
  /\ Len(last.ret.clientes_mas_activos) = TOP_ACTIVE
  /\ last.ret.clientes_mas_activos[1].hits > last.ret.clientes_mas_activos[TOP_ACTIVE].hits
  /\ \E i \in 1..TOP_ACTIVE : ~MapHas(cache, last.ret.clientes_mas_activos[i].cliente)
\* C31: no step of the cache (get, with or without the purge of an expired
\* entry, set, with or without cleanup, delete, the timer's cleanup) removes a
\* stats entry or lowers its hits or its sets; a key stored again after its
\* entry was evicted has the hits of its earlier entries, which are what
\* cleanup's comparator reads.
C31_StatsMonotone ==
  [][ \A k \in CacheKeys :
        MapHas(stats, k)
        => /\ MapHas(stats', k)
           /\ HitsOf(stats', k) >= HitsOf(stats, k)
           /\ SetsOf(stats', k) >= SetsOf(stats, k)
    ]_vars

\* A set on the full cache has evicted the entry of its own key and stored
\* it again: the key has the hits counted before.
C31_Witness ==
  /\ last.op = "set"
  /\ last.cleaned
  /\ last.key \in last.evicted
  /\ MapHas(cache, last.key)
  /\ HitsOf(stats, last.key) > 0
  /\ SetsOf(stats, last.key) >= 2
\* The timer of line 114 fires again and again: the cleanup it runs is taken
\* whenever it would change the state.
SpecSweep == InitEvict /\ [][NextEvict]_vars /\ WF_vars(Sweep)

\* C32: the timer's cleanup on a cache of n >= 1 entries deletes exactly
\* ceil(n / 5) >= 1 of them, whatever their age and whether or not the cache
\* has reached MAX_CACHE_SIZE, so that a cache with one entry of age <=
\* CACHE_TTL is empty after it; with no set in between, the repeated cleanups
\* end with the cache empty.
C32_SweepEmpties ==
  /\ [][ last'.op = "sweep"
         => LET n == Len(cache)
                d == n - Len(cache')
            IN  /\ d = Cardinality(last'.evicted)
                /\ 5 * d >= n
                /\ 5 * (d - 1) < n
                /\ n >= 1 => d >= 1
                /\ n = 1 => cache' = <<>>
       ]_vars
  /\ <>(cache = <<>>)

\* The timer's cleanup has deleted the only entry of the cache, of age <=
\* CACHE_TTL, from a cache below MAX_CACHE_SIZE.
C32_Witness ==
  /\ last.op = "sweep"
  /\ Cardinality(last.evicted) = 1
  /\ cache = <<>>
  /\ 1 < MAX_CACHE_SIZE
\* C33: every 200 response that /completo builds from an upstream fetch, the
\* primary or the fallback one, has total_productos equal to the number of
\* items of its lista_precios, and guardado_en_cache true exactly when the
\* request called set.
C33_TotalMatchesList ==
  \A i \in Slots :
    InFlight(i)
    => \A res \in ResultsFor(i) :
         LET h == Resumed(i, res)
         IN  (h.next = "respond" /\ h.resp.status = 200)
             => /\ h.resp.total_productos = Len(h.resp.lista_precios)
                /\ h.resp.guardado_en_cache = h.didSet
\* C34: in every state each key of the cache map has a stats entry with
\* sets >= 1, and every stats entry with hits > 0 has sets >= 1.
C34_StatsCoverCache ==
  /\ \A k \in MapKeys(cache) : MapHas(stats, k) /\ SetsOf(stats, k) >= 1
  /\ \A k \in MapKeys(stats) : HitsOf(stats, k) > 0 => SetsOf(stats, k) >= 1

\* The cache holds an entry, and a key with hits counted has none any more.
C34_Witness ==
  /\ cache # <<>>
  /\ \E k \in MapKeys(stats) : ~MapHas(cache, k) /\ HitsOf(stats, k) > 0
\* /completo and /visibles for one client and for a blank identifier, with
\* both formats requested.
FormatIds == { <<"K">>, <<" ">> }

NextFormat == NextOver(FormatIds, Formatos, Slots)

SpecFormat == Init /\ [][NextFormat]_vars

\* C35: a cache hit answers with the payload as it was stored, whatever
\* format the request asks for (the format is not read on that path).  While
\* the cache holds an entry of age <= CACHE_TTL stored with the format
\* "completo", a /completo request without fuerza_actualizacion answers the
\* raw products of the entry with mapa_precios undefined, and /visibles
\* answers every SKU asked for with the product of the uncached branch.
C35_HitKeepsStoredFormat ==
  \A raw \in FormatIds :
    (MapHas(cache, raw) /\ Age(cache, raw, now) <= CACHE_TTL)
    => LET data == MapGet(cache, raw).data
           h    == completoStart(cache, stats, now, raw, FALSE)
       IN  /\ h.next = "respond"
           /\ h.resp.status = 200
           /\ h.resp.desde_cache
           /\ h.resp.lista_precios = data.lista_precios
           /\ h.resp.mapa_precios = data.mapa_precios
           /\ h.resp.metadata.formato_optimizado = data.metadata.formato_optimizado
           /\ data.metadata.formato_optimizado = "completo"
              => /\ ~h.resp.mapa_precios.def
                 /\ \A i \in 1..Len(h.resp.lista_precios) :
                      "articulo" \in DOMAIN h.resp.lista_precios[i]
                 /\ \A q \in SkuQueries \ {<<>>} :
                      LET v == visibles(cache, stats, now, raw, q)
                      IN  /\ v.got = "hit"
                          /\ Len(v.resp.productos) = Len(SkuArray(q))
                          /\ \A i \in 1..Len(v.resp.productos) :
                               v.resp.productos[i] = ProductoSimulado(SkuArray(q)[i])

\* A /completo request has been served from an entry stored with the format
\* "completo".
C35_Witness ==
  /\ last.op = "fetch_hit"
  /\ MapHas(cache, last.key)
  /\ MapGet(cache, last.key).data.metadata.formato_optimizado = "completo"
  /\ MapGet(cache, last.key).data.lista_precios # <<>>
\* C36: /completo and /visibles address one cache entry for one identifier.
\* For every identifier that is not blank, leading or trailing whitespace
\* included, while the entry that /completo stored for it has age <=
\* CACHE_TTL, /visibles with the same identifier reads that entry.
C36_SameEntry ==
  \A raw \in RawIds :
    (/\ Trim(raw) # <<>>
     /\ MapHas(cache, Trim(raw))
     /\ Age(cache, Trim(raw), now) <= CACHE_TTL)
    => \A q \in SkuQueries \ {<<>>} :
         LET v == visibles(cache, stats, now, raw, q)
         IN  /\ v.got = "hit"
             /\ v.ret = MapGet(cache, Trim(raw)).data
\* The entry and the stats entry of the key j are what they were, or the
\* entry was among those a cleanup evicted.
KeyUntouched(j) ==
  /\ MapHas(cache', j) => MapHas(cache, j) /\ MapGet(cache', j) = MapGet(cache, j)
  /\ MapHas(cache, j) => MapHas(cache', j) \/ j \in last'.evicted
  /\ MapHas(stats', j) = MapHas(stats, j)
  /\ MapHas(stats, j) => MapGet(stats', j) = MapGet(stats, j)

\* C37: the keys of codes and the keys of emails are independent.  Every
\* step of a /completo request for the identifier k (the cache check, the
\* resumption after the primary and after the fallback fetch) leaves the
\* entry and the stats entry of every other key as they are, eviction by a
\* cleanup apart; the request awaits the email accessor, and is answered as
\* por_email, exactly when k contains "@".
C37_KeySpaces ==
  [][ /\ \A i \in Slots :
           reqs'[i] # reqs[i]
           => LET r == IF reqs[i].pc = "idle" THEN reqs'[i] ELSE reqs[i]
              IN  \A j \in CacheKeys \ {Trim(r.raw)} : KeyUntouched(j)
      /\ last'.op = "fetch_hit"
         => \A j \in CacheKeys \ {last'.key} : KeyUntouched(j)
      /\ \A i \in Slots :
           (InFlight(i) /\ reqs'[i] # reqs[i])
           => LET k     == Trim(reqs[i].raw)
                  hasAt == \E p \in 1..Len(k) : k[p] = "@"
                  empty == IF hasAt THEN Returned(Env(Arr(<<>>)))
                           ELSE Returned(Arr(<<>>))
              IN  /\ (Threw("Cliente con email no encontrado") \in ResultsFor(i))
                       = hasAt
                  /\ (Returned(Arr(<<>>)) \in ResultsFor(i)) = ~hasAt
                  /\ (Returned(Env(Arr(<<>>))) \in ResultsFor(i)) = hasAt
                  /\ (Resumed(i, empty).resp.tipo_cliente = "por_email") = hasAt
    ]_vars

\* An email request has stored its entry beside the entry of a code, which
\* is what it was.
C37_Witness ==
  /\ last.op \in {"primary_done", "fallback_done"}
  /\ last.didSet
  /\ IncludesAt(last.key)
  /\ \E j \in MapKeys(cache) : ~IncludesAt(j)
  /\ MapHas(cache, last.key)
\* C38: GET /lista-precios/estadisticas answers 200 with total_clientes,
\* memoria_total_kb and clientes_mas_activos as getStats gives them, for
\* every state of the cache, the empty one included, and never an error.
C38_StatsRouteAnswers ==
  last.op = "estadisticas"
  => /\ last.ret.status = 200
     /\ last.ret.total_clientes = Len(cache)
     /\ last.ret.memoria_total_kb = getStats(cache, stats).memoria_total_kb
     /\ last.ret.clientes_mas_activos = getStats(cache, stats).clientes_mas_activos
\* Two /completo request slots over one client and a blank identifier, with
\* the clock and the timer's cleanup in between.  Each upstream call
\* is bounded by its timeout: a suspended request is resumed, with a value or
\* with a failure.
LiveIds == { <<"K">>, <<" ">> }

Resume(i) ==
  \E res \in ResultsFor(i) :
    \/ PrimaryReturns(i, res)
    \/ PrimaryThrows(i, res)
    \/ FallbackReturns(i, res)
    \/ FallbackThrows(i, res)

NextLive ==
  \/ Tick
  \/ Sweep
  \/ \E i \in RaceSlots : \E raw \in LiveIds : FetchInvalid(i, raw)
  \/ \E i \in RaceSlots : \E raw \in LiveIds : FetchHit(i, raw, "optimizado")
  \/ \E i \in RaceSlots : \E raw \in LiveIds : \E force \in BOOLEAN :
       FetchMiss(i, raw, force, "optimizado")
  \/ \E i \in RaceSlots : Resume(i)

SpecLive ==
  InitRace /\ [][NextLive]_vars /\ \A i \in RaceSlots : WF_vars(Resume(i))

\* C39: every /completo request is answered, and once: a request with a
\* blank identifier and one served from the cache are answered in the step
\* that receives them; a suspended request is eventually answered, by the
\* step that ends it, with 200 or with 500, after one or two upstream calls,
\* whatever the other slot and the timer do in between.
C39_Answered ==
  /\ \A i \in RaceSlots : InFlight(i) ~> (reqs[i] = Idle)
  /\ [][ \A i \in RaceSlots :
           /\ InFlight(i) => reqs[i].calls \in {1, 2}
           /\ reqs'[i] # reqs[i]
              => \/ /\ reqs[i] = Idle
                    /\ reqs'[i].pc = "primary"
                    /\ last'.op = "fetch_miss"
                 \/ /\ reqs[i].pc = "primary"
                    /\ reqs'[i].pc = "fallback"
                    /\ last'.op = "primary_failed"
                 \/ /\ InFlight(i)
                    /\ reqs'[i] = Idle
                    /\ last'.op \in {"primary_done", "fallback_done", "fetch_error"}
                    /\ \E res \in ResultsFor(i) :
                         Resumed(i, res).resp.status \in {200, 500}
         ]_vars

\* One request has been answered after two upstream calls while the other
\* is suspended.
C39_Witness ==
  /\ last.op \in {"fallback_done", "fetch_error"}
  /\ \E i \in RaceSlots : InFlight(i)
  /\ \E i \in RaceSlots : reqs[i] = Idle
\* ------------------------------------------------------------------------
\* generateRecommendations alone: one call per behaviour, its arguments drawn
\* from the values around its thresholds (Undefined is the totalProductos of
\* an envelope whose lista_precios has no length).
\* ------------------------------------------------------------------------
RecTotals == { Undefined, 0, 1, 999, 1000, 1001, 5000, 9999, 10000, 10001, 20000 }

RecTimes == { 0, 1, 4999, 5000, 5001, 10000 }

InitRecommend ==
  /\ cache = <<>>
  /\ stats = <<>>
  /\ now = 0
  /\ reqs = [i \in Slots |-> Idle]
  /\ \E n \in RecTotals : \E ms \in RecTimes :
       last = [op |-> "call", totalProductos |-> n, tiempoMs |-> ms]

Recommend ==
  /\ last.op = "call"
  /\ last' = [op |-> "return", totalProductos |-> last.totalProductos,
              tiempoMs |-> last.tiempoMs,
              out |-> generateRecommendations(last.totalProductos, last.tiempoMs)]
  /\ UNCHANGED <<cache, stats, now, reqs>>

SpecRecommend == InitRecommend /\ [][Recommend]_vars

\* C40: what generateRecommendations returns depends on totalProductos and
\* tiempoMs alone and the call changes nothing else: it holds the item
\* "alto" exactly when totalProductos > 10000, the item "medio" exactly when
\* 1000 < totalProductos <= 10000, and the item "advertencia" exactly when
\* tiempoMs > 5000, each at most once, so at most two items and never both
\* "alto" and "medio".
C40_Recommendations ==
  /\ last.op = "return"
     => LET out   == last.out
            n     == last.totalProductos
            ms    == last.tiempoMs
            has(x) == \E i \in 1..Len(out) : out[i] = x
        IN  /\ has("alto") = (n > 10000)
            /\ has("medio") = (n > 1000 /\ n <= 10000)
            /\ has("advertencia") = (ms > 5000)
            /\ \A i \in 1..Len(out) : out[i] \in {"alto", "medio", "advertencia"}
            /\ \A i, j \in 1..Len(out) : out[i] = out[j] => i = j
            /\ Len(out) <= 2
            /\ ~(has("alto") /\ has("medio"))
  /\ cache = <<>>
  /\ stats = <<>>

\* generateRecommendations has returned two items, for a totalProductos just
\* above its upper threshold and a slow fetch.
C40_Witness ==
  /\ last.op = "return"
  /\ last.totalProductos = 10001
  /\ last.tiempoMs = 5001
  /\ last.out = <<"alto", "advertencia">>

====
